---- MODULE Spec2Model ----
(***************************************************************************)
(* Model of the two-step documentation ingestion pipeline of doc-mcp:      *)
(*   src/github/parser.py       repository identifier parsing              *)
(*   src/github/file_loader.py  bounded-concurrency file loading           *)
(*   src/ui/tabs/ingestion.py   stage 1 / stage 2 / reset handlers         *)
(*   src/ui/components/common.py  rendering of a progress snapshot         *)
(*   src/core/types.py          GitHubFileInfo, ProgressState              *)
(*   src/rag/ingestion.py       ingest_documents and its progress reports  *)
(*   src/database/repository.py update_repository_info                     *)
(* Python strings that the code inspects are tuples of one-character       *)
(* strings, so that strip, split, startswith and replace are computed.     *)
(***************************************************************************)
EXTENDS Integers, Sequences, FiniteSets, TLC

\* ------------------------------------------------------------------ strings

\* The characters str.strip() removes (the model's identifiers use the space).
Whitespace == {" "}

\* s[i..] as a sequence; empty when i > Len(s).
Drop(s, n) == SubSeq(s, n + 1, Len(s))

Take(s, n) == SubSeq(s, 1, IF n < Len(s) THEN n ELSE Len(s))

\* str.startswith(prefix)
StartsWith(s, prefix) ==
    /\ Len(prefix) <= Len(s)
    /\ SubSeq(s, 1, Len(prefix)) = prefix

\* str.lstrip(chars) / str.rstrip(chars) / str.strip(chars)
RECURSIVE LStrip(_, _)
LStrip(s, chars) ==
    IF s # <<>> /\ Head(s) \in chars THEN LStrip(Tail(s), chars) ELSE s

RECURSIVE RStrip(_, _)
RStrip(s, chars) ==
    IF s # <<>> /\ s[Len(s)] \in chars
    THEN RStrip(SubSeq(s, 1, Len(s) - 1), chars)
    ELSE s

StripChars(s, chars) == RStrip(LStrip(s, chars), chars)

\* `sub in s`
RECURSIVE Contains(_, _)
Contains(s, sub) ==
    IF Len(s) < Len(sub) THEN FALSE
    ELSE IF StartsWith(s, sub) THEN TRUE
    ELSE Contains(Tail(s), sub)

\* str.replace(old, new), leftmost non-overlapping occurrences; old is non-empty.
RECURSIVE Replace(_, _, _)
Replace(s, old, new) ==
    IF s = <<>> THEN <<>>
    ELSE IF StartsWith(s, old) THEN new \o Replace(Drop(s, Len(old)), old, new)
    ELSE <<Head(s)>> \o Replace(Tail(s), old, new)

\* Index of the first character of s that is in chars, or Len(s) + 1.
RECURSIVE FindFirst(_, _, _)
FindFirst(s, chars, i) ==
    IF i > Len(s) THEN Len(s) + 1
    ELSE IF s[i] \in chars THEN i
    ELSE FindFirst(s, chars, i + 1)

\* str.split(sep) for a one-character separator: always at least one part.
RECURSIVE Split(_, _)
Split(s, sep) ==
    LET i == FindFirst(s, {sep}, 1)
    IN  IF i > Len(s) THEN <<s>>
        ELSE <<SubSeq(s, 1, i - 1)>> \o Split(Drop(s, i), sep)

\* sep.join(parts)
RECURSIVE Join(_, _)
Join(parts, sep) ==
    IF parts = <<>> THEN <<>>
    ELSE IF Len(parts) = 1 THEN parts[1]
    ELSE parts[1] \o <<sep>> \o Join(Tail(parts), sep)

\* ------------------------------------------------------------------ literals

HttpsPrefix == <<"h","t","t","p","s",":","/","/">>
HttpPrefix == <<"h","t","t","p",":","/","/">>
GithubCom == <<"g","i","t","h","u","b",".","c","o","m">>
Main == <<"m","a","i","n">>

\* ------------------------------------------------------------------ parser.py

Letters ==
    {"a","b","c","d","e","f","g","h","i","j","k","l","m",
     "n","o","p","q","r","s","t","u","v","w","x","y","z"}

\* urllib.parse: the characters a scheme may hold after its first letter.
SchemeChars == Letters \cup {"+", "-", "."}

\* urllib.parse.urlparse(url).path: the scheme is split off at the first ':'
\* when what precedes it is a scheme, a leading '//' starts the netloc, which
\* runs to the next '/', '?' or '#', and the path ends at the first '?' or '#'.
UrlPath(url) ==
    LET c == FindFirst(url, {":"}, 1)
        hasScheme ==
            /\ c <= Len(url)
            /\ c > 1
            /\ url[1] \in Letters
            /\ \A i \in 1..(c - 1) : url[i] \in SchemeChars
        rest == IF hasScheme THEN Drop(url, c) ELSE url
        afterNetloc ==
            IF StartsWith(rest, <<"/","/">>)
            THEN Drop(rest, FindFirst(Drop(rest, 2), {"/", "?", "#"}, 1) + 1)
            ELSE rest
    IN  Take(afterNetloc, FindFirst(afterNetloc, {"?", "#"}, 1) - 1)

\* The normalised url of parse_github_url (lines 28-32).
NormalizedUrl(url) ==
    LET u == RStrip(StripChars(url, Whitespace), {"/"})
    IN  IF StartsWith(u, HttpsPrefix \o GithubCom) \/ StartsWith(u, GithubCom)
        THEN u
        ELSE HttpsPrefix \o GithubCom \o <<"/">> \o u

\* path_parts without the strip("/") of line 38.
PathParts_KeepsOuterSlashes(url) == Split(UrlPath(NormalizedUrl(url)), "/")

\* path_parts of parse_github_url (line 38).
PathParts(url) == Split(StripChars(UrlPath(NormalizedUrl(url)), {"/"}), "/")

\* parse_github_url accepting every path of at least two parts.
ParseRaises_AcceptsLongerPaths(url) ==
    \/ StripChars(url, Whitespace) = <<>>
    \/ Len(PathParts(url)) < 2

\* parse_github_url raises GitHubError.
ParseRaises(url) ==
    \/ StripChars(url, Whitespace) = <<>>
    \/ Len(PathParts(url)) # 2

\* parse_github_url(url), defined where it does not raise.
parse_github_url(url) ==
    [owner |-> PathParts(url)[1], repo |-> PathParts(url)[2]]


\* ------------------------------------------------------------------ bounds

\* The most paths one call or one selection holds.
MaxPaths == 2

\* The largest max_concurrent a direct call of load_files_from_github is given.
MaxConcurrent == 2

\* Elapsed times are whole ticks of half a second, at most this many.
MaxTicks == 1

\* The longest text after the host part of an identifier given to
\* parse_github_url on its own.
MaxUrlLen == 5

\* The longest file path given to create_document_from_file_info on its own.
MaxPathLen == 3

\* How many steps of five percent a progress value given to the rendering
\* or to ProgressState lies below 0 or above 100 at most, and how many
\* characters an error message is shorter or longer than the cap at most.
MaxExcess == 2

\* The number of characters of the error message the rendering shows
\* (common.py line 187).
ErrorCap == 300

\* max_concurrent as stage 1 passes it (ingestion.py line 265).
Stage1MaxConcurrent == 10

\* ------------------------------------------------------------------ inputs

\* Paths of repository files, the shapes file_loader.py distinguishes:
\* with and without a directory, with and without an extension.
PathPool ==
    << <<"d","/","a",".","m","d">>,
       <<"r",".","m","d">>,
       <<"d","/","e","/","x">>,
       <<"n">>,
       <<"b",".","c",".","m","d">> >>

NPaths == IF MaxPaths < Len(PathPool) THEN MaxPaths ELSE Len(PathPool)

\* The elements of seq at the indices in S, in the order of seq.
RECURSIVE SubSeqAt(_, _)
SubSeqAt(seq, S) ==
    IF S = {} THEN <<>>
    ELSE LET m == CHOOSE i \in S : \A j \in S : i <= j
         IN  <<seq[m]>> \o SubSeqAt(seq, S \ {m})

PoolSeq(S) == SubSeqAt(PathPool, S)

\* The value of the file selector: distinct choices, in the listed order.
Selections == {PoolSeq(S) : S \in SUBSET (1..NPaths)}

\* file_paths of a direct call: any list, repeated paths included.
PathLists ==
    Selections \cup {<<PathPool[1], PathPool[1]>>, <<PathPool[2], PathPool[1], PathPool[2]>>}

\* Repository identifiers as typed into the repository textbox.
UrlShort == <<"o","/","r">>
UrlFull == HttpsPrefix \o GithubCom \o <<"/","o","/","r">>
UrlHost == GithubCom \o <<"/","o","/","r","/">>
UrlHttp == HttpPrefix \o GithubCom \o <<"/","o","/","r">>
UrlPadded == <<" ","o","/","r","/">>
UrlThree == <<"a","/","b","/","c">>
UrlOne == <<"o">>
UrlFullOne == HttpsPrefix \o GithubCom \o <<"/","o">>
UrlBlank == <<" ">>
UrlEmpty == <<>>
UrlSlash == <<"o","/","r","/">>

RepoUrls ==
    {UrlShort, UrlFull, UrlHost, UrlHttp, UrlPadded, UrlThree, UrlOne,
     UrlFullOne, UrlBlank, UrlEmpty}

\* The identifiers the tab's runs are given: parseable in both forms, one
\* that only parse_github_url rejects, one that the handler rejects itself,
\* and the empty textbox.
TabUrls == {UrlShort, UrlFull, UrlThree, UrlFullOne, UrlEmpty}

\* ------------------------------------------------------------------ dicts

\* dict.get(key, default)
Get(d, k, default) == IF k \in DOMAIN d THEN d[k] ELSE default

\* {} : the fresh progress state (gr.State({}) and _reset_progress).
EmptyDict == [k \in {} |-> 0]

\* None
None == "None"

\* ------------------------------------------------------------------ file_loader.py: documents

\* GitHubFileInfo as the client returns it for a retrieved path; valid tells
\* whether its fields let DocumentMetadata and Document be built.
FileInfo(path, valid) == [path |-> path, valid |-> valid]

\* The document id without the branch.
create_document_from_file_info_IdWithoutBranch(file_info, repo_name, branch) ==
    [doc_id |-> repo_name \o <<":">> \o file_info.path,
     file_path |-> file_info.path,
     repo |-> repo_name]

\* create_document_from_file_info: the document id and the metadata the
\* pipeline reads.
create_document_from_file_info(file_info, repo_name, branch) ==
    [doc_id |-> repo_name \o <<":">> \o branch \o <<":">> \o file_info.path,
     file_path |-> file_info.path,
     repo |-> repo_name]

\* build_github_web_url(owner, repo, path, branch) (parser.py lines 70-90).
build_github_web_url(owner, repo, path, branch) ==
    LET base_url == HttpsPrefix \o GithubCom \o <<"/">> \o owner \o <<"/">> \o repo
    IN  IF path # <<>>
        THEN base_url \o <<"/","b","l","o","b","/">> \o branch \o <<"/">> \o path
        ELSE base_url \o <<"/","t","r","e","e","/">> \o branch

\* web_url falling back to the download URL.
web_url_FallsBackToDownloadUrl(file_info, repo_name, branch) ==
    IF ParseRaises(repo_name)
    THEN file_info.download_url
    ELSE build_github_web_url(parse_github_url(repo_name).owner,
                              parse_github_url(repo_name).repo,
                              file_info.path, branch)

\* web_url of create_document_from_file_info (lines 20-24): the exception of
\* parse_github_url is caught and the url of the file info taken instead.
web_url(file_info, repo_name, branch) ==
    IF ParseRaises(repo_name)
    THEN file_info.url
    ELSE build_github_web_url(parse_github_url(repo_name).owner,
                              parse_github_url(repo_name).repo,
                              file_info.path, branch)

\* file_extension taking what follows the first '.'.
file_extension_AfterFirstDot(path) ==
    IF Contains(path, <<".">>) THEN Split(path, ".")[2] ELSE <<>>

\* file_extension of the metadata (line 30).
file_extension(path) ==
    IF Contains(path, <<".">>)
    THEN Split(path, ".")[Len(Split(path, "."))]
    ELSE <<>>

\* directory keeping the first segment only.
directory_FirstSegmentOnly(path) ==
    IF Contains(path, <<"/">>) THEN Split(path, "/")[1] ELSE <<>>

\* directory of the metadata (lines 31-33).
directory(path) ==
    IF Contains(path, <<"/">>)
    THEN Join(SubSeq(Split(path, "/"), 1, Len(Split(path, "/")) - 1), "/")
    ELSE <<>>

\* DocumentMetadata(...).dict() of create_document_from_file_info (lines 27-41).
DocumentMetadata(file_info, repo_name, branch) ==
    [file_path |-> file_info.path,
     file_name |-> file_info.name,
     file_extension |-> file_extension(file_info.path),
     directory |-> directory(file_info.path),
     repo |-> repo_name,
     branch |-> branch,
     sha |-> file_info.sha,
     size |-> file_info.size,
     url |-> web_url(file_info, repo_name, branch),
     raw_url |-> file_info.download_url,
     type |-> file_info.type]

\* repo_name of load_files_from_github (lines 75-76).
LoaderRepoName(repo_url) ==
    parse_github_url(repo_url).owner \o <<"/">> \o parse_github_url(repo_url).repo

\* ------------------------------------------------------------------ common.py: rendering

\* The rendering reading progress_state["error"] instead of .get("error", ...):
\* an error snapshot without that key raises KeyError.
format_progress_display_RequiresError(progress_state) ==
    IF DOMAIN progress_state = {}
    THEN [raises |-> FALSE, text |-> "ready_to_start_ingestion"]
    ELSE LET status == Get(progress_state, "status", "unknown")
         IN  IF status = "complete"
             THEN [raises |-> Get(progress_state, "total_time", 0) = 0,
                   text |-> "complete_summary"]
             ELSE IF status = "error"
             THEN [raises |-> "error" \notin DOMAIN progress_state,
                   text |-> "error_summary"]
             ELSE [raises |-> FALSE, text |-> status]

\* The rendering without the test of lines 97-98: the empty snapshot is
\* rendered like any other, with the status "unknown".
format_progress_display_WithoutEmptyCheck(progress_state) ==
    LET status == Get(progress_state, "status", "unknown")
    IN  IF status = "complete"
        THEN [raises |-> Get(progress_state, "total_time", 0) = 0,
              text |-> "complete_summary"]
        ELSE IF status = "error"
        THEN [raises |-> FALSE, text |-> "error_summary"]
        ELSE [raises |-> FALSE, text |-> status]

\* format_progress_display: whether it raises, and which text it returns.
\* The only operation that can fail on a snapshot of this pipeline is the
\* processing rate docs_processed / total_time of a complete snapshot.
format_progress_display(progress_state) ==
    IF DOMAIN progress_state = {}
    THEN [raises |-> FALSE, text |-> "ready_to_start_ingestion"]
    ELSE LET status == Get(progress_state, "status", "unknown")
         IN  IF status = "complete"
             THEN [raises |-> Get(progress_state, "total_time", 0) = 0,
                   text |-> "complete_summary"]
             ELSE IF status = "error"
             THEN [raises |-> FALSE, text |-> "error_summary"]
             ELSE [raises |-> FALSE, text |-> status]

\* progress_bar (lines 107-108) as its numbers of filled and of empty cells;
\* "x" * n of Python holds no character for a negative n. The progress
\* values of the model are multiples of 5, for which progress / 2.5 is a
\* whole number and int() changes nothing.
progress_bar(progress) ==
    LET filled == (2 * progress) \div 5
        Repeat(n) == IF n < 0 THEN 0 ELSE n
    IN  [filled |-> Repeat(filled), empty |-> Repeat(40 - filled)]

\* The error details showing the whole message.
error_details_Uncapped(error) == error

\* error[:300] and the '...' that follows it when len(error) > 300 (line 187).
error_details(error) ==
    SubSeq(error, 1, IF Len(error) < ErrorCap THEN Len(error) ELSE ErrorCap)
        \o (IF Len(error) > ErrorCap THEN <<".", ".", ".">> ELSE <<>>)

\* The troubleshooting tips of lines 189-193.
TroubleshootingTips ==
    <<"Check your GitHub token permissions", "Verify repository URL format",
      "Ensure selected files exist", "Check network connectivity">>

UnknownError == <<"U","n","k","n","o","w","n"," ","e","r","r","o","r">>

\* f"{docs_processed / total_time:.1f}" (line 178) in tenths, for a
\* total_time other than 0: the quotient rounded to the nearest tenth (the
\* counts and times of the model give no quotient halfway between two).
processing_rate(docs_processed, total_time) ==
    (20 * docs_processed + total_time) \div (2 * total_time)

\* What the text format_progress_display returns holds (lines 121-195), for a
\* snapshot it does not raise on: the percent printed twice, the bar, and by
\* status the processing rate in tenths, or the error details and the tips.
RenderedParts(progress_state) ==
    LET status == Get(progress_state, "status", "unknown")
        progress == Get(progress_state, "progress", 0)
    IN  [text |-> format_progress_display(progress_state).text,
         percent |-> progress,
         bar |-> progress_bar(progress),
         rate |-> IF status = "complete"
                  THEN processing_rate(Get(progress_state, "documents_processed", 0),
                                       Get(progress_state, "total_time", 0))
                  ELSE 0,
         error_details |-> IF status = "error"
                           THEN error_details(Get(progress_state, "error", UnknownError))
                           ELSE <<>>,
         tips |-> IF status = "error" THEN TroubleshootingTips ELSE <<>>]

\* ProgressState(status=..., message=..., progress=progress) (types.py lines
\* 68-83): pydantic checks Field(ge=0, le=100) and raises ValidationError for
\* a value outside of it; a value inside is stored as given.
ProgressState(status, progress) ==
    IF progress < 0 \/ progress > 100
    THEN [raises |-> TRUE]
    ELSE [raises |-> FALSE, status |-> status, progress |-> progress]

\* ------------------------------------------------------------------ ingestion.py: snapshots

\* Lines 199-205.
NoFilesSelected ==
    [status |-> "error", message |-> "No files selected for loading",
     progress |-> 0, details |-> "Please select at least one file to proceed.",
     step |-> "file_loading"]

\* Lines 224-230.
InvalidUrlFormat ==
    [status |-> "error", message |-> "Invalid repository URL format",
     progress |-> 0,
     details |-> "Expected format: owner/repo or https://github.com/owner/repo",
     step |-> "file_loading"]

\* Lines 242-254.
initial_progress(total_files, repo_name) ==
    [status |-> "loading", message |-> "Starting file loading", progress |-> 0,
     total_files |-> total_files, processed_files |-> 0,
     successful_files |-> 0, failed_files |-> 0, phase |-> "File Loading",
     details |-> "Preparing to load files", step |-> "file_loading",
     repo_name |-> repo_name]

\* The details of completion_progress (line 276): the success rate is
\* computed only when documents and failed files are not both empty.
CompletionDetails(documents, failed_files) ==
    IF Len(documents) + Len(failed_files) > 0
    THEN [loaded |-> Len(documents), failed |-> Len(failed_files),
          success_rate |->
              (Len(documents) * 100) \div (Len(documents) + Len(failed_files))]
    ELSE [loaded |-> 0, failed |-> 0, success_rate |-> 100]

\* Lines 271-285.
completion_progress(documents, failed_files, loading_time, repo_name, total_files) ==
    [status |-> "loaded", message |-> "File Loading Complete", progress |-> 100,
     phase |-> "Files Loaded Successfully",
     details |-> CompletionDetails(documents, failed_files),
     step |-> "file_loading_complete", loaded_documents |-> documents,
     failed_files |-> failed_files, loading_time |-> loading_time,
     repo_name |-> repo_name, total_files |-> total_files,
     processed_files |-> total_files, successful_files |-> Len(documents)]

\* Lines 293-304: e is the message of the exception caught; total_time, the
\* time since start_time, is written into the message (line 298).
LoadingError(e, total_time) ==
    [status |-> "error", message |-> "File loading error after",
     message_time |-> total_time, progress |-> 0,
     phase |-> "Loading Failed", details |-> e, error |-> e,
     step |-> "file_loading"]

\* Lines 314-319.
NoDocumentsToProcess ==
    [status |-> "error", message |-> "No documents to process", progress |-> 0,
     details |-> "Please load files first."]

\* Lines 326-331.
NoDocumentsAvailable ==
    [status |-> "error", message |-> "No documents available", progress |-> 0,
     details |-> "No documents found to process."]

\* isinstance(failed_files_data, list): the snapshots of this module hold a
\* list under "failed_files" (lines 279, 363, 398) except the loading
\* snapshot of step "file_loading", which holds the int 0 (line 249).
FailedFilesIsList(current_progress) ==
    Get(current_progress, "step", None) # "file_loading"

\* failed_files_count of lines 348-351 and 384-387: a list counts its
\* elements, an int counts itself, an absent key is the empty list.
FailedFilesCount(current_progress) ==
    LET failed_files_data == Get(current_progress, "failed_files", <<>>)
    IN  IF FailedFilesIsList(current_progress)
        THEN Len(failed_files_data)
        ELSE failed_files_data

\* The complete snapshot counting the files of the run, not the documents.
complete_progress_CountsAllFiles(current_progress, documents, repo_name, vector_time) ==
    [status |-> "complete", message |-> "Complete Processing Pipeline Finished",
     progress |-> 100, phase |-> "Complete",
     details |-> "Successfully processed documents", step |-> "complete",
     total_time |-> Get(current_progress, "loading_time", 0) + vector_time,
     documents_processed |-> Get(current_progress, "total_files", 0),
     failed_files_count |-> FailedFilesCount(current_progress),
     failed_files |-> Get(current_progress, "failed_files", <<>>),
     vector_time |-> vector_time,
     loading_time |-> Get(current_progress, "loading_time", 0),
     repo_name |-> repo_name, repository_updated |-> TRUE]

\* Lines 353-368.
complete_progress(current_progress, documents, repo_name, vector_time) ==
    [status |-> "complete", message |-> "Complete Processing Pipeline Finished",
     progress |-> 100, phase |-> "Complete",
     details |-> "Successfully processed documents", step |-> "complete",
     total_time |-> Get(current_progress, "loading_time", 0) + vector_time,
     documents_processed |-> Len(documents),
     failed_files_count |-> FailedFilesCount(current_progress),
     failed_files |-> Get(current_progress, "failed_files", <<>>),
     vector_time |-> vector_time,
     loading_time |-> Get(current_progress, "loading_time", 0),
     repo_name |-> repo_name, repository_updated |-> TRUE]

\* Lines 370-375.
IngestionFailed ==
    [status |-> "error", message |-> "Vector ingestion failed", progress |-> 0,
     details |-> "Document ingestion failed"]

\* Lines 389-399: e is the message of the exception caught.
VectorError(current_progress, e) ==
    [status |-> "error", message |-> "Vector Store Ingestion Failed",
     progress |-> 0, phase |-> "Failed", details |-> e, error |-> e,
     step |-> "vector_ingestion",
     failed_files_count |-> FailedFilesCount(current_progress),
     failed_files |-> Get(current_progress, "failed_files", <<>>)]

\* repo_name of _start_file_loading_generator (lines 217-238).
Stage1RepoName(repo_url) ==
    IF Contains(repo_url, GithubCom)
    THEN StripChars(
             Replace(Replace(repo_url, HttpsPrefix \o GithubCom \o <<"/">>, <<>>),
                     HttpPrefix \o GithubCom \o <<"/">>, <<>>),
             {"/"})
    ELSE StripChars(repo_url, Whitespace)

\* The check of lines 217-236: the handler's own format error.
Stage1RejectsUrl(repo_url) ==
    /\ Contains(repo_url, GithubCom)
    /\ ~Contains(Stage1RepoName(repo_url), <<"/">>)

\* ------------------------------------------------------------------ state

VARIABLES
    progress_state,     \* gr.State: the run's snapshot (ingestion.py line 96)
    progress_display,   \* the text of the progress textbox
    step2_btn,          \* whether the stage-2 button is interactive
    s1pc,               \* _start_file_loading_generator: "idle", "called", "loading", "fetching"
    s1_repo_url,        \* its repo_url argument
    s1_selected_files,  \* its selected_files argument
    ld,                 \* the call of load_files_from_github: arguments and result
    cl_status,          \* get_multiple_files: per path "pending", "inflight", "ok", "bad", "fail"
    cl_done,            \* the positions of the paths in the order their retrievals ended
    s2pc,               \* _start_vector_ingestion: "idle", "ingesting", "updating"
    s2_current_progress,\* its current_progress argument
    store_call,         \* the arguments of the pending ingest_documents_async call
    update_call,        \* the arguments of the pending update_repository_info call
    mongodb,            \* the durable store: the repositories with documents in
                        \* docs_collection, and repos_collection by _id
    uncaught,           \* the handlers an exception has escaped from
    s2_second,          \* a second _start_vector_ingestion running beside the first:
                        \* its position, its current_progress and its pending call
    fn_call             \* the last call of a function on its own: its name, arguments and outcome

vars ==
    <<progress_state, progress_display, step2_btn, s1pc, s1_repo_url,
      s1_selected_files, ld, cl_status, cl_done, s2pc, s2_current_progress, store_call,
      update_call, mongodb, uncaught, s2_second, fn_call>>

outVars == <<progress_state, progress_display, step2_btn>>
uiVars == <<outVars, uncaught>>
s1Vars == <<s1pc, s1_repo_url, s1_selected_files>>
s2Vars == <<s2pc, s2_current_progress, store_call, update_call, mongodb, s2_second>>
ldVars == <<ld, cl_status, cl_done>>

\* No function has been called on its own.
NoCall == [op |-> None]

\* No second invocation of stage 2.
S2Idle == [pc |-> "idle", current_progress |-> EmptyDict, store_call |-> <<>>]

\* No call of load_files_from_github.
LdIdle ==
    [pc |-> "idle", caller |-> None, repo_url |-> <<>>, file_paths |-> <<>>,
     max_concurrent |-> 0, repo_name |-> <<>>, documents |-> <<>>,
     failed_paths |-> <<>>]

Init ==
    /\ progress_state = EmptyDict
    /\ progress_display = "ready_to_start_two_step_processing"
    /\ step2_btn = FALSE
    /\ s1pc = "idle"
    /\ s1_repo_url = <<>>
    /\ s1_selected_files = <<>>
    /\ ld = LdIdle
    /\ cl_status = <<>>
    /\ cl_done = <<>>
    /\ s2pc = "idle"
    /\ s2_current_progress = EmptyDict
    /\ store_call = <<>>
    /\ update_call = <<>>
    /\ mongodb = [docs_collection |-> {}, repos_collection |-> EmptyDict]
    /\ uncaught = {}
    /\ s2_second = S2Idle
    /\ fn_call = NoCall

\* ------------------------------------------------------------------ load_files_from_github

\* The call without the parse of lines 73-78: any identifier reaches the client.
LoadEnter_WithoutParse(caller, repo_url, file_paths, max_concurrent) ==
    LET call == [pc |-> "idle", caller |-> caller, repo_url |-> repo_url,
                 file_paths |-> file_paths, max_concurrent |-> max_concurrent,
                 repo_name |-> repo_url, documents |-> <<>>,
                 failed_paths |-> <<>>]
    IN  IF file_paths = <<>> THEN [call EXCEPT !.pc = "returned"]
        ELSE [call EXCEPT !.pc = "fetching"]

\* The call without the check of lines 69-71: an empty list goes on to the
\* parse and to the client.
LoadEnter_WithoutEmptyCheck(caller, repo_url, file_paths, max_concurrent) ==
    LET call == [pc |-> "idle", caller |-> caller, repo_url |-> repo_url,
                 file_paths |-> file_paths, max_concurrent |-> max_concurrent,
                 repo_name |-> repo_url, documents |-> <<>>,
                 failed_paths |-> <<>>]
    IN  IF ParseRaises(repo_url) THEN [call EXCEPT !.pc = "raised"]
        ELSE [call EXCEPT !.pc = "fetching",
                          !.repo_name = LoaderRepoName(repo_url)]

\* The call up to its first suspension (lines 69-85): an empty list returns
\* at once, an identifier parse_github_url rejects raises GitHubError, and
\* otherwise repo_name is set (lines 75-76) and get_multiple_files is
\* entered.
LoadEnter(caller, repo_url, file_paths, max_concurrent) ==
    LET call == [LdIdle EXCEPT !.caller = caller, !.repo_url = repo_url,
                               !.file_paths = file_paths,
                               !.max_concurrent = max_concurrent]
    IN  IF file_paths = <<>> THEN [call EXCEPT !.pc = "returned"]
        ELSE IF ParseRaises(repo_url) THEN [call EXCEPT !.pc = "raised"]
        ELSE [call EXCEPT !.pc = "fetching",
                          !.repo_name = LoaderRepoName(repo_url)]

\* A limit that lets no retrieval start.
ClientLimit_Zero(max_concurrent) == 0

\* A limit one larger than asked for.
ClientLimit_OneMore(max_concurrent) == max_concurrent + 1

\* The limit get_multiple_files is given (lines 83-85).
ClientLimit(max_concurrent) == max_concurrent

\* get_multiple_files is entered only by a call that got past the parse:
\* every path is then waiting for its retrieval.
ClientEnter(call) ==
    IF call.pc = "fetching"
    THEN [i \in 1..Len(call.file_paths) |-> "pending"]
    ELSE <<>>

Indices(status, what) == {i \in 1..Len(status) : status[i] = what}

\* The retrievals in flight.
InFlight == Indices(cl_status, "inflight")

\* get_multiple_files starts the retrieval of one waiting path when fewer
\* than the limit are in flight.
ClientStart(i) ==
    /\ ld.pc = "fetching"
    /\ i \in Indices(cl_status, "pending")
    /\ Cardinality(InFlight) < ClientLimit(ld.max_concurrent)
    /\ cl_status' = [cl_status EXCEPT ![i] = "inflight"]
    /\ UNCHANGED <<uiVars, s1Vars, s2Vars, ld, cl_done>>
    /\ UNCHANGED fn_call

\* How a retrieval ends: with a file a document can be made of ("ok"),
\* with a file whose fields make the document's construction raise ("bad"),
\* or with an error (network, 404, decode: "fail").
Results == {"ok", "bad", "fail"}

\* One retrieval ends; the results are collected in the order of completion.
ClientFinish(i, result) ==
    /\ ld.pc = "fetching"
    /\ i \in InFlight
    /\ cl_status' = [cl_status EXCEPT ![i] = result]
    /\ cl_done' = Append(cl_done, i)
    /\ UNCHANGED <<uiVars, s1Vars, s2Vars, ld>>
    /\ UNCHANGED fn_call

\* file_infos and failed_paths as get_multiple_files returns them: no order
\* is promised, so they are taken in the order the retrievals ended.
ClientFileInfos(file_paths, status, done) ==
    LET Retrieved(i) == status[i] \in {"ok", "bad"}
        got == SelectSeq(done, Retrieved)
    IN  [k \in 1..Len(got) |-> FileInfo(file_paths[got[k]], status[got[k]] = "ok")]

ClientFailedPaths(file_paths, status, done) ==
    LET Failed(i) == status[i] = "fail"
        lost == SelectSeq(done, Failed)
    IN  [k \in 1..Len(lost) |-> file_paths[lost[k]]]

\* The loop's turn keeping only the document made last.
AssembleOne_Overwrites(acc, file_info, repo_name, raises) ==
    IF raises
    THEN [acc EXCEPT !.failed_paths = Append(@, file_info.path)]
    ELSE [acc EXCEPT !.documents =
             <<create_document_from_file_info(file_info, repo_name, Main)>>]

\* The loop's turn without line 95: a path whose document cannot be created
\* is dropped.
AssembleOne_DropsFailure(acc, file_info, repo_name, raises) ==
    IF raises
    THEN acc
    ELSE [acc EXCEPT !.documents =
             Append(@, create_document_from_file_info(file_info, repo_name, Main))]

\* One turn of the loop of lines 89-95: the document is appended, or, when
\* creating it raises, the path is appended to failed_paths.
AssembleOne(acc, file_info, repo_name, raises) ==
    IF raises
    THEN [acc EXCEPT !.failed_paths = Append(@, file_info.path)]
    ELSE [acc EXCEPT !.documents =
             Append(@, create_document_from_file_info(file_info, repo_name, Main))]

\* The loop of lines 88-95 from position i on; the construction of a
\* document raises for a file info whose fields are not valid.
RECURSIVE AssembleFrom(_, _, _, _)
AssembleFrom(file_infos, i, repo_name, acc) ==
    IF i > Len(file_infos) THEN acc
    ELSE AssembleFrom(file_infos, i + 1, repo_name,
                      AssembleOne(acc, file_infos[i], repo_name,
                                  ~file_infos[i].valid))

\* The assembly starting from an empty failed list: the paths the client
\* reported as failed are forgotten.
Assemble_ForgetsFetchFailures(file_infos, failed_paths, repo_name) ==
    AssembleFrom(file_infos, 1, repo_name,
                 [documents |-> <<>>, failed_paths |-> <<>>])

\* documents and failed_paths of lines 87-100.
Assemble(file_infos, failed_paths, repo_name) ==
    AssembleFrom(file_infos, 1, repo_name,
                 [documents |-> <<>>, failed_paths |-> failed_paths])

\* get_multiple_files has an answer for every path, and
\* load_files_from_github assembles the documents and returns (lines 87-100).
LoadReturn ==
    /\ ld.pc = "fetching"
    /\ \A i \in 1..Len(cl_status) : cl_status[i] \in Results
    /\ LET out == Assemble(ClientFileInfos(ld.file_paths, cl_status, cl_done),
                           ClientFailedPaths(ld.file_paths, cl_status, cl_done),
                           ld.repo_name)
       IN  ld' = [ld EXCEPT !.pc = "returned", !.documents = out.documents,
                            !.failed_paths = out.failed_paths]
    /\ UNCHANGED <<uiVars, s1Vars, s2Vars, cl_status, cl_done>>
    /\ UNCHANGED fn_call

\* A caller other than the tab calls load_files_from_github.
DirectCall(repo_url, file_paths, max_concurrent) ==
    /\ ld.pc \in {"idle", "returned", "raised"}
    /\ ld' = LoadEnter("direct", repo_url, file_paths, max_concurrent)
    /\ cl_status' = ClientEnter(ld')
    /\ cl_done' = <<>>
    /\ UNCHANGED <<uiVars, s1Vars, s2Vars>>
    /\ UNCHANGED fn_call

\* ------------------------------------------------------------------ stage 1

\* str(e) of the GitHubError of file_loader.py line 78.
GitHubErrorMessage == "Invalid repository URL"

\* What a yield of the stage-1 generator does to its outputs (lines 113-118):
\* the snapshot, its rendering and the stage-2 button.
\* An exception of the rendering outside the try block escapes the handler
\* and leaves the outputs as they were.
Yield(snapshot, interactive) ==
    IF format_progress_display(snapshot).raises
    THEN /\ uncaught' = uncaught \cup {"stage1"}
         /\ UNCHANGED outVars
    ELSE /\ progress_state' = snapshot
         /\ progress_display' = format_progress_display(snapshot).text
         /\ step2_btn' = interactive
         /\ UNCHANGED uncaught

\* A yield inside the try block (lines 240-290): an exception of the
\* rendering is caught at line 292 and the error snapshot is yielded.
Caught(snapshot, total_time) ==
    IF format_progress_display(snapshot).raises
    THEN LoadingError("render", total_time)
    ELSE snapshot

\* The stage-1 handler has ended: its arguments are gone.
Stage1Exit ==
    /\ s1pc' = "idle"
    /\ s1_repo_url' = <<>>
    /\ s1_selected_files' = <<>>

\* The stage-1 button's event calls _start_file_loading_generator with the
\* textbox and the selector as they are (lines 113-118).
Stage1Call(repo_url, selected_files) ==
    /\ s1pc = "idle"
    /\ s1pc' = "called"
    /\ s1_repo_url' = repo_url
    /\ s1_selected_files' = selected_files
    /\ UNCHANGED <<uiVars, s2Vars, ldVars>>
    /\ UNCHANGED fn_call

\* The snapshot of the first yield (lines 198-259).
Stage1First(repo_url, selected_files) ==
    IF selected_files = <<>> THEN NoFilesSelected
    ELSE IF Stage1RejectsUrl(repo_url) THEN InvalidUrlFormat
    ELSE initial_progress(Len(selected_files), Stage1RepoName(repo_url))

\* _start_file_loading_generator up to its first yield (lines 196-259).
Stage1Start ==
    /\ s1pc = "called"
    /\ LET first == Stage1First(s1_repo_url, s1_selected_files)
           p == IF first.status = "loading" THEN Caught(first, 0) ELSE first
       IN  /\ Yield(p, FALSE)
           /\ IF p.status = "loading"
              THEN /\ s1pc' = "loading"
                   /\ UNCHANGED <<s1_repo_url, s1_selected_files>>
              ELSE Stage1Exit
    /\ UNCHANGED <<s2Vars, ldVars>>
    /\ UNCHANGED fn_call

\* The generator resumes after the loading yield: it sleeps and calls
\* load_files_from_github (lines 261-266); a GitHubError raised before the
\* first retrieval is caught at line 292 and yielded as an error snapshot
\* with the time total_time since the handler started.
Stage1Load(total_time) ==
    /\ s1pc = "loading"
    /\ LET call == LoadEnter("stage1", s1_repo_url, s1_selected_files,
                             Stage1MaxConcurrent)
       IN  IF call.pc = "raised"
           THEN /\ Yield(LoadingError(GitHubErrorMessage, total_time), FALSE)
                /\ Stage1Exit
                /\ UNCHANGED ldVars
           ELSE /\ ld' = call
                /\ cl_status' = ClientEnter(call)
                /\ cl_done' = <<>>
                /\ s1pc' = "fetching"
                /\ UNCHANGED <<uiVars, s1_repo_url, s1_selected_files>>
    /\ UNCHANGED s2Vars
    /\ UNCHANGED fn_call

\* Stage 1 treating a load without any document as an error.
Stage1Result_ErrorWithoutDocuments(documents, failed_files, loading_time, repo_name, total_files) ==
    IF documents = <<>>
    THEN LoadingError("No documents loaded", loading_time)
    ELSE completion_progress(documents, failed_files, loading_time, repo_name, total_files)

\* The snapshot stage 1 yields for what load_files_from_github returned
\* (lines 268-290): always the loaded snapshot.
Stage1Result(documents, failed_files, loading_time, repo_name, total_files) ==
    completion_progress(documents, failed_files, loading_time, repo_name, total_files)

\* load_files_from_github has returned to the generator, which yields the
\* loaded snapshot and enables stage 2 (lines 264-290).
Stage1Finish(loading_time) ==
    /\ s1pc = "fetching"
    /\ ld.caller = "stage1"
    /\ ld.pc = "returned"
    /\ LET p == Stage1Result(ld.documents, ld.failed_paths, loading_time,
                             Stage1RepoName(s1_repo_url), Len(s1_selected_files))
       IN  Yield(Caught(p, loading_time), Caught(p, loading_time).status = "loaded")
    /\ Stage1Exit
    /\ ld' = LdIdle
    /\ cl_status' = <<>>
    /\ cl_done' = <<>>
    /\ UNCHANGED s2Vars
    /\ UNCHANGED fn_call

\* ------------------------------------------------------------------ stage 2

\* The checks rejecting nothing but the fresh snapshot.
Stage2Rejects_OnlyEmptySnapshot(current_progress) ==
    DOMAIN current_progress = {}

\* The checks without the one of line 325: an empty document list passes.
Stage2Rejects_SkipsDocumentCheck(current_progress) ==
    Get(current_progress, "step", None) # "file_loading_complete"

\* Whether _start_vector_ingestion returns without calling the store
\* (lines 313 and 325).
Stage2Rejects(current_progress) ==
    \/ Get(current_progress, "step", None) # "file_loading_complete"
    \/ Get(current_progress, "loaded_documents", <<>>) = <<>>

\* The snapshot it then returns (lines 314-320 and 326-332).
Stage2Rejection(current_progress) ==
    IF Get(current_progress, "step", None) # "file_loading_complete"
    THEN NoDocumentsToProcess
    ELSE NoDocumentsAvailable

\* What a return of the stage-2 handler does to its outputs (lines 120-125):
\* the snapshot and its rendering; the stage-2 button is no output of it.
\* An exception of the rendering at lines 320, 332 or 400 escapes the handler.
Stage2Output(snapshot) ==
    IF format_progress_display(snapshot).raises
    THEN /\ uncaught' = uncaught \cup {"stage2"}
         /\ UNCHANGED outVars
    ELSE /\ progress_state' = snapshot
         /\ progress_display' = format_progress_display(snapshot).text
         /\ UNCHANGED <<step2_btn, uncaught>>

\* Stage 2 is invoked on the current snapshot and rejects it.
Stage2Reject ==
    /\ s2pc = "idle"
    /\ Stage2Rejects(progress_state)
    /\ Stage2Output(Stage2Rejection(progress_state))
    /\ UNCHANGED <<s2Vars, s1Vars, ldVars>>
    /\ UNCHANGED fn_call

\* Stage 2 is invoked on the current snapshot and awaits
\* ingest_documents_async(documents, repo_name) (lines 322-340).
Stage2Submit ==
    /\ s2pc = "idle"
    /\ ~Stage2Rejects(progress_state)
    /\ s2_current_progress' = progress_state
    /\ store_call' =
           <<[documents |-> Get(progress_state, "loaded_documents", <<>>),
              repo_name |-> Get(progress_state, "repo_name", <<>>)]>>
    /\ s2pc' = "ingesting"
    /\ UNCHANGED <<uiVars, s1Vars, ldVars, update_call, mongodb>>
    /\ UNCHANGED <<fn_call, s2_second>>

\* ingest_documents returning failure when the metadata update failed.
ingest_documents_RollsBack(documents, store_ok, update_ok) ==
    IF documents = <<>> THEN "False"
    ELSE IF store_ok /\ update_ok THEN "True"
    ELSE "raise"

\* ingest_documents (rag/ingestion.py lines 60-134): False for an empty
\* list, IngestionError when the store raises, and True otherwise: the
\* result of update_repository_info (line 113) is not looked at.
ingest_documents(documents, store_ok, update_ok) ==
    IF documents = <<>> THEN "False"
    ELSE IF store_ok THEN "True"
    ELSE "raise"

\* str(e) of the IngestionError of rag/ingestion.py line 134.
IngestionErrorMessage == "Document ingestion failed"

\* The snapshot stage 2 returns after the store submission (lines 342-400);
\* an exception of the rendering at line 377 is caught at line 379.
Stage2Result(current_progress, documents, repo_name, success, vector_time) ==
    LET done == complete_progress(current_progress, documents, repo_name, vector_time)
    IN  IF success = "raise"
        THEN VectorError(current_progress, IngestionErrorMessage)
        ELSE IF success = "False" THEN IngestionFailed
        ELSE IF format_progress_display(done).raises
        THEN VectorError(current_progress, "division by zero")
        ELSE done

\* The stage-2 handler has ended: its locals are gone.
Stage2Exit ==
    /\ s2pc' = "idle"
    /\ s2_current_progress' = EmptyDict
    /\ store_call' = <<>>
    /\ update_call' = <<>>

\* VectorStoreIndex.from_documents (rag/ingestion.py lines 95-99) writes the
\* documents to the documents collection, of which the model keeps the
\* repositories that have documents in it (metadata.repo).
from_documents(docs_collection, documents) ==
    docs_collection \cup {documents[i].repo : i \in 1..Len(documents)}

\* The metadata update given a file count of 0.
UpdateArgs_CountsNothing(documents, repo_name) ==
    [repo_name |-> repo_name, file_count |-> 0, branch |-> Main]

\* The arguments of update_repository_info at rag/ingestion.py line 113:
\* repo_name, total_docs and the branch, which is the default "main" since
\* stage 2 passes none (ingestion.py line 340).
UpdateArgs(documents, repo_name) ==
    [repo_name |-> repo_name, file_count |-> Len(documents), branch |-> Main]

\* update_repository_info (database/repository.py lines 100-122): replace_one
\* with upsert on _id = repo_name; an exception of it is caught and logged,
\* and the collection is left as it was.
update_repository_info(repos_collection, args, ok) ==
    IF ok
    THEN [k \in DOMAIN repos_collection \cup {args.repo_name} |->
              IF k = args.repo_name
              THEN [file_count |-> args.file_count, branch |-> args.branch,
                    status |-> "complete"]
              ELSE repos_collection[k]]
    ELSE repos_collection

\* ingest_documents up to the metadata update (rag/ingestion.py lines
\* 60-113). For an empty list it returns False and for a store that raises
\* it raises IngestionError: stage 2 then returns its error snapshot.
\* Otherwise the documents are in the store and update_repository_info is
\* called.
Stage2Store(store_ok) ==
    /\ s2pc = "ingesting"
    /\ LET documents == store_call[1].documents
           repo_name == store_call[1].repo_name
       IN  IF documents # <<>> /\ store_ok
           THEN /\ mongodb' = [mongodb EXCEPT !.docs_collection =
                                   from_documents(@, documents)]
                /\ update_call' = <<UpdateArgs(documents, repo_name)>>
                /\ s2pc' = "updating"
                /\ UNCHANGED <<uiVars, s2_current_progress, store_call>>
           ELSE /\ Stage2Output(
                       Stage2Result(s2_current_progress, documents, repo_name,
                                    ingest_documents(documents, store_ok, TRUE), 0))
                /\ Stage2Exit
                /\ UNCHANGED mongodb
    /\ UNCHANGED <<s1Vars, ldVars>>
    /\ UNCHANGED <<fn_call, s2_second>>

\* update_repository_info ends, ingest_documents returns, and stage 2
\* returns its snapshot (rag/ingestion.py lines 113-118, ingestion.py lines
\* 340-400).
Stage2Return(update_ok, vector_time) ==
    /\ s2pc = "updating"
    /\ mongodb' = [mongodb EXCEPT !.repos_collection =
                       update_repository_info(@, update_call[1], update_ok)]
    /\ Stage2Output(
           Stage2Result(s2_current_progress, store_call[1].documents,
                        store_call[1].repo_name,
                        ingest_documents(store_call[1].documents, TRUE, update_ok),
                        vector_time))
    /\ Stage2Exit
    /\ UNCHANGED <<s1Vars, ldVars>>
    /\ UNCHANGED <<fn_call, s2_second>>

\* ------------------------------------------------------------------ a second stage 2 beside the first

\* step2_btn is clicked again while the first _start_vector_ingestion has
\* not returned: the handler has no lock and its button is not among its
\* outputs (lines 120-125), so the second invocation is handed the snapshot
\* gr.State holds, runs the same checks (lines 313 and 325) and awaits its
\* own ingest_documents_async (lines 334-340).
Stage2SecondCall ==
    /\ s2pc # "idle"
    /\ s2_second.pc = "idle"
    /\ IF Stage2Rejects(progress_state)
       THEN /\ Stage2Output(Stage2Rejection(progress_state))
            /\ UNCHANGED s2_second
       ELSE /\ s2_second' =
                   [pc |-> "ingesting", current_progress |-> progress_state,
                    store_call |->
                        <<[documents |-> Get(progress_state, "loaded_documents", <<>>),
                           repo_name |-> Get(progress_state, "repo_name", <<>>)]>>]
            /\ UNCHANGED uiVars
    /\ UNCHANGED <<s2pc, s2_current_progress, store_call, update_call, mongodb>>
    /\ UNCHANGED <<s1Vars, ldVars, fn_call>>

\* The second invocation's ingest_documents runs (rag/ingestion.py lines
\* 60-134, no suspension between the store and the metadata update) and the
\* handler returns its snapshot (ingestion.py lines 342-400).
Stage2SecondReturn(store_ok, update_ok, vector_time) ==
    /\ s2_second.pc = "ingesting"
    /\ LET documents == s2_second.store_call[1].documents
           repo_name == s2_second.store_call[1].repo_name
       IN  /\ mongodb' =
                  IF store_ok
                  THEN [docs_collection |->
                            from_documents(mongodb.docs_collection, documents),
                        repos_collection |->
                            update_repository_info(mongodb.repos_collection,
                                                   UpdateArgs(documents, repo_name),
                                                   update_ok)]
                  ELSE mongodb
           /\ Stage2Output(
                  Stage2Result(s2_second.current_progress, documents, repo_name,
                               ingest_documents(documents, store_ok, update_ok),
                               vector_time))
    /\ s2_second' = S2Idle
    /\ UNCHANGED <<s2pc, s2_current_progress, store_call, update_call>>
    /\ UNCHANGED <<s1Vars, ldVars, fn_call>>

\* ------------------------------------------------------------------ reset, refresh

\* _reset_progress (lines 406-412).
ResetProgress ==
    /\ progress_state' = EmptyDict
    /\ progress_display' = "ready_to_start_two_step_processing"
    /\ step2_btn' = FALSE
    /\ UNCHANGED <<uncaught, s1Vars, s2Vars, ldVars>>
    /\ UNCHANGED fn_call

\* _refresh_progress (lines 402-404).
RefreshProgress ==
    /\ IF format_progress_display(progress_state).raises
       THEN /\ uncaught' = uncaught \cup {"refresh"}
            /\ UNCHANGED progress_display
       ELSE /\ progress_display' = format_progress_display(progress_state).text
            /\ UNCHANGED uncaught
    /\ UNCHANGED <<progress_state, step2_btn, s1Vars, s2Vars, ldVars>>
    /\ UNCHANGED fn_call

\* ------------------------------------------------------------------ specifications

\* time.sleep(0.5) at line 261 makes the loading time at least one tick.
LoadingTimes == 1..MaxTicks
VectorTimes == 0..MaxTicks

\* The tab: stage 1, stage 2, reset and refresh in any order and overlap.
Next ==
    \/ \E u \in TabUrls, f \in Selections : Stage1Call(u, f)
    \/ Stage1Start
    \/ \E t \in LoadingTimes : Stage1Load(t)
    \/ \E i \in 1..NPaths : ClientStart(i)
    \/ \E i \in 1..NPaths, result \in Results : ClientFinish(i, result)
    \/ LoadReturn
    \/ \E t \in LoadingTimes : Stage1Finish(t)
    \/ Stage2Reject
    \/ Stage2Submit
    \/ \E ok \in BOOLEAN : Stage2Store(ok)
    \/ \E ok \in BOOLEAN, t \in VectorTimes : Stage2Return(ok, t)
    \/ ResetProgress
    \/ RefreshProgress

Spec == Init /\ [][Next]_vars

\* load_files_from_github called on its own, with any list and any limit.
NextFetch ==
    \/ \E u \in RepoUrls, f \in PathLists, m \in 1..MaxConcurrent : DirectCall(u, f, m)
    \/ \E i \in 1..(NPaths + 1) : ClientStart(i)
    \/ \E i \in 1..(NPaths + 1), result \in Results : ClientFinish(i, result)
    \/ LoadReturn

SpecFetch == Init /\ [][NextFetch]_vars

\* The identifiers of the calls whose termination is checked: one that
\* parse_github_url accepts and one that it rejects.
FairUrls == {UrlShort, UrlThree}

NextFetchFair ==
    \/ \E u \in FairUrls, f \in PathLists, m \in 1..MaxConcurrent : DirectCall(u, f, m)
    \/ \E i \in 1..(NPaths + 1) : ClientStart(i)
    \/ \E i \in 1..(NPaths + 1), result \in Results : ClientFinish(i, result)
    \/ LoadReturn

\* get_multiple_files runs its retrievals as tasks of the event loop, which
\* resumes every task that can run; every retrieval ends (the client's
\* requests have a timeout); and the loader goes on once the client returns.
SpecFetchFair ==
    /\ Init
    /\ [][NextFetchFair]_vars
    /\ WF_vars(\E i \in 1..(NPaths + 1) : ClientStart(i))
    /\ WF_vars(\E i \in 1..(NPaths + 1), result \in Results : ClientFinish(i, result))
    /\ WF_vars(LoadReturn)

\* ------------------------------------------------------------------ stage 1 on its own

\* The identifiers typed into the repository box: the shorthand and the URL
\* forms, with and without a trailing slash or padding, and malformed ones.
Stage1Urls ==
    {UrlShort, UrlSlash, UrlPadded, UrlFull, UrlHttp, UrlHost, UrlThree,
     UrlFullOne, UrlEmpty}

\* Stage 1, reset and refresh in any order, with every identifier form.
NextStage1 ==
    \/ \E u \in Stage1Urls, f \in Selections : Stage1Call(u, f)
    \/ Stage1Start
    \/ \E t \in LoadingTimes : Stage1Load(t)
    \/ \E i \in 1..NPaths : ClientStart(i)
    \/ \E i \in 1..NPaths, result \in Results : ClientFinish(i, result)
    \/ LoadReturn
    \/ \E t \in LoadingTimes : Stage1Finish(t)
    \/ ResetProgress
    \/ RefreshProgress

SpecStage1 == Init /\ [][NextStage1]_vars

\* ------------------------------------------------------------------ overlapping stage 2

\* The tab with stage 2 invoked again before it has returned, for an
\* identifier the loader accepts and one it rejects.
NextOverlap ==
    \/ \E u \in FairUrls, f \in Selections : Stage1Call(u, f)
    \/ Stage1Start
    \/ \E t \in LoadingTimes : Stage1Load(t)
    \/ \E i \in 1..NPaths : ClientStart(i)
    \/ \E i \in 1..NPaths, result \in Results : ClientFinish(i, result)
    \/ LoadReturn
    \/ \E t \in LoadingTimes : Stage1Finish(t)
    \/ Stage2Reject
    \/ Stage2Submit
    \/ \E ok \in BOOLEAN : Stage2Store(ok)
    \/ \E ok \in BOOLEAN, t \in VectorTimes : Stage2Return(ok, t)
    \/ Stage2SecondCall
    \/ \E store_ok \in BOOLEAN, update_ok \in BOOLEAN, t \in VectorTimes :
           Stage2SecondReturn(store_ok, update_ok, t)
    \/ ResetProgress
    \/ RefreshProgress

SpecOverlap == Init /\ [][NextOverlap]_vars

\* ------------------------------------------------------------------ parse_github_url on its own

\* All sequences over chars of length at most n.
StringsUpTo(chars, n) == UNION {[1..k -> chars] : k \in 0..n}

\* The characters of the identifiers: two letters, the separator and the
\* space str.strip() removes.
UrlChars == {"o", "r", "/", " "}

\* What an identifier starts with: nothing (the shorthand), the scheme and
\* host, the host alone, another scheme.
UrlPrefixes ==
    {<<>>, HttpsPrefix \o GithubCom, GithubCom, HttpPrefix \o GithubCom}

\* Identifiers with a query: urlparse ends the path at the '?'.
QueryUrls ==
    {prefix \o body \o <<"?">> \o query :
        prefix \in UrlPrefixes,
        body \in StringsUpTo(UrlChars, 3),
        query \in {<<>>, <<"/">>, <<"/", "r">>}}

ParseInputs ==
    {prefix \o body : prefix \in UrlPrefixes, body \in StringsUpTo(UrlChars, MaxUrlLen)}
        \cup QueryUrls

\* parse_github_url(url) called on its own: GitHubError, or the pair returned.
ParseCall(url) ==
    /\ fn_call = NoCall
    /\ fn_call' =
         IF ParseRaises(url)
         THEN [op |-> "parse_github_url", url |-> url, raises |-> TRUE,
               owner |-> <<>>, repo |-> <<>>]
         ELSE [op |-> "parse_github_url", url |-> url, raises |-> FALSE,
               owner |-> parse_github_url(url).owner,
               repo |-> parse_github_url(url).repo]
    /\ UNCHANGED <<uiVars, s1Vars, s2Vars, ldVars>>

NextParse == \E url \in ParseInputs : ParseCall(url)

SpecParse == Init /\ [][NextParse]_vars

\* ------------------------------------------------------------------ create_document_from_file_info on its own

\* The file paths: every non-empty string over a letter, '.' and '/', the
\* shapes "docs/a.md" and "readme.md", and a path that holds a ':'.
AssemblePaths ==
    (StringsUpTo({"a", ".", "/"}, MaxPathLen) \ {<<>>})
        \cup {<<"d","/","a",".","m">>, <<"r",".","m">>, <<"a",":","a">>}

\* Two retrievals of a path differ in hash, size and content.
FileVersions ==
    {[sha |-> "sha1", size |-> 1, content |-> "text1"],
     [sha |-> "sha2", size |-> 2, content |-> "text2"]}

\* GitHubFileInfo (types.py lines 54-65) of a path. url and download_url are
\* two fields the client fills from the contents response: url is written
\* "A" and the path, download_url "R" and the path.
GitHubFileInfo(path, version) ==
    [path |-> path,
     name |-> Split(path, "/")[Len(Split(path, "/"))],
     sha |-> version.sha,
     size |-> version.size,
     url |-> <<"A">> \o path,
     download_url |-> <<"R">> \o path,
     type |-> "file",
     encoding |-> "base64",
     content |-> version.content]

AssembleFiles == {GitHubFileInfo(path, v) : path \in AssemblePaths, v \in FileVersions}

\* repo_name: one parse_github_url accepts, one it accepts that holds a ':',
\* and two it rejects.
AssembleRepos ==
    {<<"o","/","r">>, <<"o","/","r",":","m">>, <<"o">>, <<"o","/","r","/","x">>}

AssembleBranches == {<<"m">>, <<"a">>}

\* create_document_from_file_info(file_info, repo_name, branch) called on its
\* own: the Document of lines 44-49.
AssembleCall(file_info, repo_name, branch) ==
    /\ fn_call = NoCall
    /\ fn_call' =
         [op |-> "create_document_from_file_info",
          file_info |-> file_info,
          repo_name |-> repo_name,
          branch |-> branch,
          document |->
              [text |-> file_info.content,
               doc_id |-> create_document_from_file_info(file_info, repo_name, branch).doc_id,
               metadata |-> DocumentMetadata(file_info, repo_name, branch)]]
    /\ UNCHANGED <<uiVars, s1Vars, s2Vars, ldVars>>

NextAssemble ==
    \E file_info \in AssembleFiles, repo_name \in AssembleRepos, branch \in AssembleBranches :
        AssembleCall(file_info, repo_name, branch)

SpecAssemble == Init /\ [][NextAssemble]_vars

\* ------------------------------------------------------------------ format_progress_display and ProgressState on their own

\* Progress values in steps of five percent, from below 0 to above 100.
ProgressValues == {5 * k : k \in (0 - MaxExcess)..(20 + MaxExcess)}

\* The snapshots rendered: none, running ones with any progress value,
\* complete ones with any counts and times, and error ones without an
\* 'error' and with a message near the empty one or near the cap (the
\* characters of a message past the cap differ from the ones before it).
RenderInputs ==
    LET ErrorMessage(n) == [i \in 1..n |-> IF i > ErrorCap THEN "x" ELSE "e"]
        ErrorLengths == (0..MaxExcess) \cup ((ErrorCap - MaxExcess)..(ErrorCap + MaxExcess))
    IN  {EmptyDict}
            \cup {[status |-> s, message |-> "m", progress |-> p] :
                      s \in {"loading", "loaded", "vectorizing"}, p \in ProgressValues}
            \cup {[status |-> "complete", message |-> "m", progress |-> 100,
                    documents_processed |-> d, total_time |-> t, repo_name |-> UrlShort] :
                      d \in 0..MaxPaths, t \in 0..(MaxTicks + 1)}
            \cup {[status |-> "error", message |-> "m", progress |-> 0,
                    error |-> ErrorMessage(n)] : n \in ErrorLengths}
            \cup {[status |-> "error", message |-> "m", progress |-> 0]}

\* format_progress_display(progress_state) called on its own: the exception,
\* or the parts of the text returned; after is the dictionary once the call
\* is over (the function assigns to none of its keys).
RenderCall(snapshot) ==
    /\ fn_call = NoCall
    /\ fn_call' =
         IF format_progress_display(snapshot).raises
         THEN [op |-> "format_progress_display", progress_state |-> snapshot,
               raises |-> TRUE, after |-> snapshot]
         ELSE [op |-> "format_progress_display", progress_state |-> snapshot,
               raises |-> FALSE, after |-> snapshot,
               output |-> RenderedParts(snapshot)]
    /\ UNCHANGED <<uiVars, s1Vars, s2Vars, ldVars>>

\* ProgressState(...) built with a progress value.
ProgressStateCall(status, progress) ==
    /\ fn_call = NoCall
    /\ fn_call' = [op |-> "ProgressState", progress |-> progress,
                   result |-> ProgressState(status, progress)]
    /\ UNCHANGED <<uiVars, s1Vars, s2Vars, ldVars>>

NextRender ==
    \/ \E snapshot \in RenderInputs : RenderCall(snapshot)
    \/ \E status \in {"loading", "complete"}, progress \in ProgressValues :
           ProgressStateCall(status, progress)

SpecRender == Init /\ [][NextRender]_vars

\* ------------------------------------------------------------------ file discovery on its own

\* github_client.get_repository_tree(repo_url, branch, file_extensions): it
\* returns a list of paths and a status message, or it raises; message is
\* then the text of the exception.
TreeOutcomes ==
    {[raises |-> FALSE, files |-> f, message |-> m] :
         f \in Selections, m \in {"Found files", "No files found"}}
    \cup {[raises |-> TRUE, files |-> <<>>, message |-> e] :
              e \in {"Not Found", "rate limit exceeded", "timed out"}}

\* The function without its try block: the exception of the listing
\* reaches the caller.
discover_repository_files_WithoutTry(repo_url, tree) == tree

\* discover_repository_files (file_loader.py lines 103-124): the listing's
\* result, or an empty list and the text of the exception it raised.
discover_repository_files(repo_url, tree) ==
    IF tree.raises
    THEN [raises |-> FALSE, files |-> <<>>, message |-> "Error: " \o tree.message]
    ELSE tree

\* _discover_files (ingestion.py lines 142-180): visibility of the file
\* selector, status_output, files_state and whether step1_btn is
\* interactive; an exception of discover_repository_files is caught.
discover_files(repo_url, tree) ==
    LET found == discover_repository_files(repo_url, tree)
        Hidden(message) ==
            [selector_visible |-> FALSE, status_output |-> message,
             files_state |-> <<>>, step1_btn |-> FALSE]
    IN  IF StripChars(repo_url, Whitespace) = <<>>
        THEN Hidden("Please enter a repository URL")
        ELSE IF found.raises THEN Hidden("Error: " \o found.message)
        ELSE IF found.files # <<>>
        THEN [selector_visible |-> TRUE, status_output |-> found.message,
              files_state |-> found.files, step1_btn |-> TRUE]
        ELSE Hidden(found.message)

\* The discover button is clicked: what discover_repository_files gives its
\* caller for the listing's outcome, and the handler's outputs.
DiscoverCall(repo_url, tree) ==
    /\ fn_call = NoCall
    /\ fn_call' = [op |-> "_discover_files", repo_url |-> repo_url,
                   tree |-> tree,
                   found |-> discover_repository_files(repo_url, tree),
                   outputs |-> discover_files(repo_url, tree)]
    /\ UNCHANGED <<uiVars, s1Vars, s2Vars, ldVars>>

NextDiscover == \E repo_url \in RepoUrls, tree \in TreeOutcomes : DiscoverCall(repo_url, tree)

SpecDiscover == Init /\ [][NextDiscover]_vars

\* ------------------------------------------------------------------ ingest_documents on its own

\* The largest number of documents in a call of ingest_documents.
MaxDocs == 3

\* _report_progress (rag/ingestion.py lines 42-45): without a callback
\* nothing is reported; with one, the callback is called with the report
\* and may raise. run is the call so far: its events, the number of calls of
\* the callback, and whether an exception is in flight.
report_progress(run, phase, processed, total, callback) ==
    IF ~callback.set THEN run
    ELSE [events |-> Append(run.events,
                            [kind |-> "report", phase |-> phase,
                             processed |-> processed, total |-> total]),
          calls |-> run.calls + 1,
          raised |-> callback.raises_at = run.calls + 1]

\* A call of a collaborator: it raises when it is the one that fails.
Collaborator(run, name, total, failure) ==
    IF failure = name THEN [run EXCEPT !.raised = TRUE]
    ELSE [run EXCEPT !.events =
              Append(@, [kind |-> name, phase |-> "", processed |-> 0,
                         total |-> total])]

\* The statements of the try block (lines 67-118), in order.
TrySteps ==
    <<"Initializing vector store", "get_vector_store", "Processing documents",
      "from_documents", "Ingestion complete", "update_repository_info">>

\* One statement of the try block.
IngestStep(run, step, total, failure, callback) ==
    IF step \in {"Initializing vector store", "Processing documents"}
    THEN report_progress(run, step, 0, total, callback)
    ELSE IF step = "Ingestion complete"
    THEN report_progress(run, step, total, total, callback)
    ELSE Collaborator(run, step, total, failure)

\* The try block from statement i on, up to the first exception.
RECURSIVE IngestTry(_, _, _, _, _)
IngestTry(run, i, total, failure, callback) ==
    IF run.raised \/ i > Len(TrySteps) THEN run
    ELSE IngestTry(IngestStep(run, TrySteps[i], total, failure, callback),
                   i + 1, total, failure, callback)

\* ingest_documents (lines 47-134) for total documents: what it did, in
\* order, and how it ended. An empty list returns False at once; an
\* exception in the try block is reported and IngestionError is raised,
\* unless the callback raises in the except block too.
ingest_documents_events(total, failure, callback) ==
    LET tried == IngestTry([events |-> <<>>, calls |-> 0, raised |-> FALSE],
                           1, total, failure, callback)
        caught == report_progress([tried EXCEPT !.raised = FALSE],
                                  "Error", 0, total, callback)
    IN  IF total = 0 THEN [events |-> <<>>, outcome |-> "False"]
        ELSE IF ~tried.raised THEN [events |-> tried.events, outcome |-> "True"]
        ELSE [events |-> caught.events,
              outcome |-> IF caught.raised THEN "raise"
                          ELSE "raise IngestionError"]

\* ingest_documents is called with a list of total documents and a pipeline
\* built with the given callback; failure names the collaborator that
\* raises, if one does. update_repository_info catches its own exceptions
\* (database/repository.py lines 120-122) and update_ok, its result, is not
\* looked at (line 113).
IngestCall(total, failure, callback, update_ok) ==
    /\ fn_call = NoCall
    /\ fn_call' = [op |-> "ingest_documents", total |-> total,
                   failure |-> failure, callback |-> callback,
                   update_ok |-> update_ok,
                   events |-> ingest_documents_events(total, failure, callback).events,
                   outcome |-> ingest_documents_events(total, failure, callback).outcome]
    /\ UNCHANGED <<uiVars, s1Vars, s2Vars, ldVars>>

NextIngest ==
    \E total \in 0..MaxDocs,
       failure \in {"none", "get_vector_store", "from_documents"},
       callback \in {[set |-> FALSE, raises_at |-> 0]}
                    \cup {[set |-> TRUE, raises_at |-> k] : k \in 0..4},
       update_ok \in BOOLEAN :
        IngestCall(total, failure, callback, update_ok)

SpecIngest == Init /\ [][NextIngest]_vars

\* ------------------------------------------------------------------ properties

\* How often x occurs in seq.
Count(seq, x) == Cardinality({i \in 1..Len(seq) : seq[i] = x})

\* How many of the documents were made from path.
CountDocuments(documents, path) ==
    Cardinality({i \in 1..Len(documents) : documents[i].file_path = path})

\* C1: when load_files_from_github returns for a non-empty list of paths,
\* the documents and the failed paths together are as many as the paths, and
\* every path occurs among them exactly as often as it was given.
C1_EveryPathAccounted ==
    (ld.pc = "returned" /\ ld.file_paths # <<>>) =>
        /\ Len(ld.documents) + Len(ld.failed_paths) = Len(ld.file_paths)
        /\ \A i \in 1..Len(ld.file_paths) :
               Count(ld.file_paths, ld.file_paths[i]) =
                   CountDocuments(ld.documents, ld.file_paths[i])
                   + Count(ld.failed_paths, ld.file_paths[i])

\* A call of three paths has returned one document, after one retrieval
\* failed and one document could not be created.
C1_Witness ==
    /\ ld.pc = "returned"
    /\ Len(ld.file_paths) = 3
    /\ Cardinality(Indices(cl_status, "fail")) = 1
    /\ Cardinality(Indices(cl_status, "bad")) = 1
    /\ Len(ld.documents) = 1
    /\ Len(ld.failed_paths) = 2

\* C2: while get_multiple_files runs, the retrievals in flight are never
\* more than max_concurrent.
C2_ConcurrencyBound ==
    ld.pc = "fetching" => Cardinality(InFlight) <= ld.max_concurrent

\* The limit is reached while a path still waits for its retrieval.
C2_Witness ==
    /\ ld.pc = "fetching"
    /\ Cardinality(InFlight) = ld.max_concurrent
    /\ Indices(cl_status, "pending") # {}

\* C3: a failed retrieval never makes the call raise, and when the call
\* returns every path has had its retrieval, every path whose retrieval
\* failed is in failed_paths, and every retrieved path is a document or is
\* in failed_paths.
C3_FailureIsolated ==
    /\ Indices(cl_status, "fail") # {} => ld.pc \in {"fetching", "returned"}
    /\ (ld.pc = "returned" /\ ld.file_paths # <<>>) =>
           \A i \in 1..Len(ld.file_paths) :
               /\ cl_status[i] \in Results
               /\ cl_status[i] = "fail" =>
                      Count(ld.failed_paths, ld.file_paths[i]) >= 1
               /\ cl_status[i] \in {"ok", "bad"} =>
                      \/ CountDocuments(ld.documents, ld.file_paths[i]) >= 1
                      \/ Count(ld.failed_paths, ld.file_paths[i]) >= 1

\* The first path's retrieval failed and the call still returned the
\* second path's document.
C3_Witness ==
    /\ ld.pc = "returned"
    /\ Len(ld.file_paths) = 2
    /\ cl_status = <<"fail", "ok">>
    /\ Len(ld.documents) = 1
    /\ ld.failed_paths = <<ld.file_paths[1]>>


\* Get(p, "status", ...) of a snapshot.
StatusOf(p) == Get(p, "status", None)

\* A completed-load snapshot: step "file_loading_complete".
IsLoaded(p) == Get(p, "step", None) = "file_loading_complete"

\* C4: ingest_documents_async is called only by a stage 2 that was handed
\* a completed-load snapshot with at least one document, and it is given
\* at least one document; no call is pending in any other state.
C4_SubmitOnlyFromLoaded ==
    store_call # <<>> =>
        /\ s2pc \in {"ingesting", "updating"}
        /\ IsLoaded(s2_current_progress)
        /\ Get(s2_current_progress, "loaded_documents", <<>>) # <<>>
        /\ store_call[1].documents # <<>>

\* The store submission is pending while a reset has already emptied the
\* run's snapshot.
C4_Witness ==
    /\ s2pc = "ingesting"
    /\ store_call # <<>>
    /\ DOMAIN progress_state = {}

\* C5: the step in which stage 1 takes the return of the fetch yields a
\* snapshot of status loaded, whatever the numbers of documents and failed
\* paths.
C5_ReturnedFetchLoads ==
    [][(s1pc = "fetching" /\ ld.pc = "returned" /\ s1pc' = "idle")
           => StatusOf(progress_state') = "loaded"]_vars

\* The loaded snapshot of a run in which both files failed.
C5_Witness ==
    /\ StatusOf(progress_state) = "loaded"
    /\ progress_state.loaded_documents = <<>>
    /\ Len(progress_state.failed_files) = 2

\* C6: the loaded snapshot holds the documents and the failed paths the
\* fetch returned; stage 2 hands the store the documents of the snapshot it
\* was given; and the complete snapshot counts the documents and the failed
\* paths of that snapshot.
C6_LoadedCarriedForward ==
    [][/\ (s1pc = "fetching" /\ ld.pc = "returned" /\ s1pc' = "idle") =>
              /\ IsLoaded(progress_state')
              /\ progress_state'.loaded_documents = ld.documents
              /\ progress_state'.failed_files = ld.failed_paths
       /\ (s2pc = "idle" /\ s2pc' = "ingesting") =>
              /\ s2_current_progress' = progress_state
              /\ store_call'[1].documents = progress_state.loaded_documents
       /\ (s2pc = "updating" /\ s2pc' = "idle"
               /\ StatusOf(progress_state') = "complete") =>
              /\ progress_state'.documents_processed =
                     Len(s2_current_progress.loaded_documents)
              /\ progress_state'.failed_files_count =
                     Len(s2_current_progress.failed_files)
      ]_vars

\* A complete snapshot of a run that loaded one document and lost one file.
C6_Witness ==
    /\ StatusOf(progress_state) = "complete"
    /\ progress_state.documents_processed = 1
    /\ progress_state.failed_files_count = 1

\* C7: a stage 2 that rejects its snapshot returns status error, and when
\* that snapshot was a completed load, the run's snapshot still holds its
\* documents and its failed paths afterwards.
C7_RejectionKeepsLoaded ==
    [][Stage2Reject =>
           /\ StatusOf(progress_state') = "error"
           /\ IsLoaded(progress_state) =>
                  /\ Get(progress_state', "loaded_documents", <<>>)
                         = Get(progress_state, "loaded_documents", <<>>)
                  /\ Get(progress_state', "failed_files", <<>>)
                         = Get(progress_state, "failed_files", <<>>)
      ]_vars

\* C8: stage 2 invoked on the empty snapshot returns a snapshot of status
\* error, no exception escapes the handler, and no store submission is made.
C8_FreshStage2IsErrorResult ==
    [][(DOMAIN progress_state = {} /\ (Stage2Reject \/ Stage2Submit)) =>
           /\ StatusOf(progress_state') = "error"
           /\ uncaught' = uncaught
           /\ s2pc' = "idle"
           /\ store_call' = <<>>
      ]_vars

\* Stage 2 has rejected the empty snapshot of a run on which stage 1 was
\* never started.
C8_Witness ==
    /\ progress_state = NoDocumentsToProcess
    /\ progress_display = "error_summary"
    /\ step2_btn = FALSE
    /\ store_call = <<>>
    /\ uncaught = {}

\* The precondition of stage 1 fails: nothing is selected, or
\* parse_github_url rejects the identifier.
PreconditionFails(repo_url, selected_files) ==
    \/ selected_files = <<>>
    \/ ParseRaises(repo_url)

\* No retrieval has been started.
NoRetrieval == \A i \in 1..Len(cl_status) : cl_status[i] = "pending"

\* C9: throughout a stage-1 run whose precondition fails no retrieval is
\* started, and the step that ends the run leaves a snapshot of status
\* error.
C9_PreconditionFailureNoNetwork ==
    [][(s1pc # "idle" /\ PreconditionFails(s1_repo_url, s1_selected_files)) =>
           /\ NoRetrieval'
           /\ s1pc' = "idle" => StatusOf(progress_state') = "error"
      ]_vars

\* A run given an identifier parse_github_url rejects has ended with the error
\* that load_files_from_github raised before any retrieval.
C9_Witness ==
    /\ StatusOf(progress_state) = "error"
    /\ Get(progress_state, "error", None) = GitHubErrorMessage
    /\ s1pc = "idle"
    /\ NoRetrieval

\* C10: a stage-1 run whose precondition fails never makes the run's
\* snapshot one of status loading.
C10_PreconditionFailureSkipsLoading ==
    [][(s1pc # "idle" /\ PreconditionFails(s1_repo_url, s1_selected_files)) =>
           \/ progress_state' = progress_state
           \/ StatusOf(progress_state') # "loading"
      ]_vars

\* C11: the step in which stage 2 accepts a completed-load snapshot and
\* starts the store submission leaves the run's snapshot with status
\* vectorizing.
C11_VectorizingWhileSubmitting ==
    [][(s2pc = "idle" /\ s2pc' = "ingesting")
           => StatusOf(progress_state') = "vectorizing"]_vars

\* A snapshot of status complete or error.
Terminal(p) == StatusOf(p) \in {"complete", "error"}

\* C12: a snapshot of status complete or error is changed only by a step
\* of a stage-1 run or by a reset to the fresh snapshot.
C12_TerminalSnapshotImmutable ==
    [][(Terminal(progress_state) /\ progress_state' # progress_state) =>
           \/ s1pc' # s1pc
           \/ progress_state' = EmptyDict
      ]_vars

\* The snapshot holds a time: in its message or in one of the time fields.
ElapsedCaptured(p) ==
    \E k \in {"message_time", "total_time", "vector_time", "loading_time"} :
        k \in DOMAIN p

\* C13: the step in which stage 1 takes the exception of the fetch, and
\* the step in which stage 2 takes the exception of the store submission,
\* let no exception escape the handler and leave a snapshot of status
\* error that holds the exception's message and the elapsed time.
C13_ExceptionBecomesTimedError ==
    [][(\/ s1pc = "loading" /\ s1pc' = "idle"
        \/ s2pc = "ingesting" /\ s2pc' = "idle" /\ store_call[1].documents # <<>>)
           => /\ uncaught' = uncaught
              /\ StatusOf(progress_state') = "error"
              /\ Get(progress_state', "error", None)
                     \in {GitHubErrorMessage, IngestionErrorMessage}
              /\ ElapsedCaptured(progress_state')
      ]_vars

\* C14: update_repository_info is called only in the step in which the
\* store has taken the documents of a stage-2 run, once, with the run's
\* repo_name, the number of its documents and the branch main; a stage 2
\* ends with status complete only out of that call; and a stage 2 that
\* rejects its snapshot or whose store submission fails makes no call and
\* leaves the repositories collection as it was.
C14_MetadataUpdateOncePerSuccess ==
    [][/\ (update_call' # update_call /\ update_call' # <<>>) =>
              /\ s2pc = "ingesting" /\ s2pc' = "updating"
              /\ update_call = <<>>
              /\ update_call' =
                     <<[repo_name |-> s2_current_progress.repo_name,
                        file_count |-> Len(s2_current_progress.loaded_documents),
                        branch |-> Main]>>
              /\ \A i \in 1..Len(s2_current_progress.loaded_documents) :
                     s2_current_progress.loaded_documents[i].repo
                         \in mongodb'.docs_collection
       /\ (s2pc # "idle" /\ s2pc' = "idle"
               /\ StatusOf(progress_state') = "complete") =>
              /\ s2pc = "updating"
              /\ Len(update_call) = 1
       /\ s2pc = "updating" =>
              /\ s2pc' \in {"updating", "idle"}
              /\ s2pc' = "updating" => update_call' = update_call
       /\ mongodb'.repos_collection # mongodb.repos_collection =>
              /\ s2pc = "updating" /\ s2pc' = "idle"
              /\ StatusOf(progress_state') = "complete"
       /\ (s2pc \in {"idle", "ingesting"} /\ s2pc' = "idle") =>
              /\ update_call' = <<>>
              /\ mongodb'.repos_collection = mongodb.repos_collection
      ]_vars

\* A stage 2 of two documents has ended complete and the repositories
\* collection holds the run's repository with a file count of 2.
C14_Witness ==
    /\ StatusOf(progress_state) = "complete"
    /\ progress_state.documents_processed = 2
    /\ progress_state.repo_name \in DOMAIN mongodb.repos_collection
    /\ mongodb.repos_collection[progress_state.repo_name].file_count = 2
    /\ mongodb.repos_collection[progress_state.repo_name].branch = Main

\* C15: the step in which update_repository_info ends, failed or not,
\* leaves a snapshot of status complete, lets no exception escape and
\* leaves the documents in the store.
C15_UpdateFailureKeepsResult ==
    [][(s2pc = "updating" /\ s2pc' = "idle") =>
           /\ StatusOf(progress_state') = "complete"
           /\ uncaught' = uncaught
           /\ mongodb'.docs_collection = mongodb.docs_collection
      ]_vars

\* A stage 2 has ended complete with its documents in the store while the
\* repositories collection, whose update failed, does not hold the run's
\* repository.
C15_Witness ==
    /\ StatusOf(progress_state) = "complete"
    /\ mongodb.docs_collection # {}
    /\ progress_state.repo_name \notin DOMAIN mongodb.repos_collection

\* C16: no step of stage 1 or of the fetch, and no stage 2 invoked on a
\* snapshot that is not a completed load with documents, starts a store
\* submission or a metadata update or changes the store; the store changes
\* only within an accepted stage 2.
C16_NoStoreWriteBeforeStage2 ==
    [][/\ (s1pc' # s1pc \/ ld' # ld \/ cl_status' # cl_status) =>
              UNCHANGED <<store_call, update_call, mongodb>>
       /\ (s2pc = "idle"
               /\ ~(/\ IsLoaded(progress_state)
                    /\ Get(progress_state, "loaded_documents", <<>>) # <<>>)) =>
              UNCHANGED <<store_call, update_call, mongodb>>
       /\ mongodb' # mongodb => s2pc \in {"ingesting", "updating"}
      ]_vars

\* A run whose stage 1 loaded no document and whose stage 2 was rejected:
\* the store is as it was at the start.
C16_Witness ==
    /\ progress_state = NoDocumentsAvailable
    /\ store_call = <<>>
    /\ update_call = <<>>
    /\ mongodb = [docs_collection |-> {}, repos_collection |-> EmptyDict]

\* C17: load_files_from_github raises only for a non-empty list and an
\* identifier parse_github_url rejects, and then no retrieval was started;
\* with an identifier it accepts the call goes on to the client and
\* returns, whatever the retrievals' results.
C17_RaisesOnlyForBadIdentifier ==
    /\ ld.pc = "raised" =>
           /\ ld.file_paths # <<>>
           /\ ParseRaises(ld.repo_url)
           /\ cl_status = <<>>
           /\ cl_done = <<>>
    /\ (ld.pc # "idle" /\ ld.file_paths # <<>> /\ ParseRaises(ld.repo_url)) =>
           ld.pc = "raised"
    /\ (\E i \in 1..Len(cl_status) : cl_status[i] \in {"bad", "fail"}) =>
           ld.pc \in {"fetching", "returned"}

\* A call of two paths with an identifier of three segments has raised.
C17_Witness ==
    /\ ld.pc = "raised"
    /\ ld.repo_url = UrlThree
    /\ Len(ld.file_paths) = 2
    /\ cl_status = <<>>

\* C18: a call with an empty list and an identifier parse_github_url
\* accepts has returned two empty lists, and no retrieval was started,
\* whatever the limit.
C18_EmptyListReturnsEmpty ==
    (ld.pc # "idle" /\ ld.file_paths = <<>> /\ ~ParseRaises(ld.repo_url)) =>
        /\ ld.pc = "returned"
        /\ ld.documents = <<>>
        /\ ld.failed_paths = <<>>
        /\ cl_status = <<>>
        /\ cl_done = <<>>

\* A call with the full URL, an empty list and the largest limit has
\* returned.
C18_Witness ==
    /\ ld.pc = "returned"
    /\ ld.repo_url = UrlFull
    /\ ld.file_paths = <<>>
    /\ ld.max_concurrent = MaxConcurrent
    /\ ld.documents = <<>>
    /\ ld.failed_paths = <<>>

\* The positions of path whose retrieval ended with one of results.
Ended(path, results) ==
    {j \in 1..Len(ld.file_paths) :
        ld.file_paths[j] = path /\ cl_status[j] \in results}

\* C19: when load_files_from_github returns, its documents and failed
\* paths are, as collections without order, given by the identifier, the
\* paths and each path's result alone: every document is the one made of
\* its path, and every path is a document as often as it was retrieved
\* well and a failed path as often as it was not, in whichever order the
\* retrievals ended.
C19_OutcomeIndependentOfOrder ==
    (ld.pc = "returned" /\ ld.file_paths # <<>>) =>
        /\ \A k \in 1..Len(ld.documents) :
               /\ ld.documents[k] =
                      create_document_from_file_info(
                          FileInfo(ld.documents[k].file_path, TRUE),
                          LoaderRepoName(ld.repo_url), Main)
               /\ Count(ld.file_paths, ld.documents[k].file_path) >= 1
        /\ \A k \in 1..Len(ld.failed_paths) :
               Count(ld.file_paths, ld.failed_paths[k]) >= 1
        /\ \A i \in 1..Len(ld.file_paths) :
               /\ CountDocuments(ld.documents, ld.file_paths[i]) =
                      Cardinality(Ended(ld.file_paths[i], {"ok"}))
               /\ Count(ld.failed_paths, ld.file_paths[i]) =
                      Cardinality(Ended(ld.file_paths[i], {"bad", "fail"}))

\* Two retrievals ended well in the order opposite to the paths, and the
\* call returned the second path's document first.
C19_Witness ==
    /\ ld.pc = "returned"
    /\ Len(ld.file_paths) = 2
    /\ cl_done = <<2, 1>>
    /\ cl_status = <<"ok", "ok">>
    /\ Len(ld.documents) = 2
    /\ ld.documents[1].file_path = ld.file_paths[2]

\* C20: under fair scheduling, every path that waits for its retrieval is
\* eventually dispatched, and every call that reached the client
\* eventually returns.
C20_EveryPathDispatchedAndReturned ==
    /\ \A i \in 1..(NPaths + 1) :
           (ld.pc = "fetching" /\ i <= Len(cl_status) /\ cl_status[i] = "pending")
               ~> (ld.pc = "fetching" /\ i <= Len(cl_status)
                       /\ cl_status[i] = "inflight")
    /\ (ld.pc = "fetching") ~> (ld.pc = "returned")

\* A call of three paths with a limit of one retrieval at a time has
\* returned after all three retrievals.
C20_Witness ==
    /\ ld.pc = "returned"
    /\ Len(ld.file_paths) = 3
    /\ ld.max_concurrent = 1
    /\ Len(cl_done) = 3

\* ------------------------------------------------------------------ C21..C23: parse_github_url

Parsed == fn_call.op = "parse_github_url"

\* C21: parse_github_url accepts the shorthand "o/r", the full URL
\* "https://github.com/o/r" and the host-prefixed "github.com/o/r/" alike:
\* each yields owner "o" and name "r".
C21_AcceptsAllThreeForms ==
    (Parsed /\ fn_call.url \in {UrlShort, UrlFull, UrlHost})
        => /\ ~fn_call.raises
           /\ fn_call.owner = <<"o">>
           /\ fn_call.repo = <<"r">>

\* The path of the identifier once normalised into a URL, without its outer
\* separators.
NormalizedPath(url) == StripChars(UrlPath(NormalizedUrl(url)), {"/"})

\* A path of exactly two non-empty segments: one separator, with something
\* on either side of it.
TwoSegments(path) ==
    \E i \in 2..(Len(path) - 1) :
        /\ path[i] = "/"
        /\ \A j \in 1..Len(path) : j # i => path[j] # "/"

C23_OwnerAndNameAreSegments ==
    (Parsed /\ ~fn_call.raises) =>
        /\ fn_call.owner # <<>>
        /\ fn_call.repo # <<>>
        /\ \A i \in 1..Len(fn_call.owner) : fn_call.owner[i] # "/"
        /\ \A i \in 1..Len(fn_call.repo) : fn_call.repo[i] # "/"

C23_Witness ==
    /\ Parsed
    /\ fn_call.url = <<" ","/","o","/","r">>
    /\ ~fn_call.raises
    /\ fn_call.owner = <<"o">>
    /\ fn_call.repo = <<"r">>

\* ------------------------------------------------------------------ C24..C27: create_document_from_file_info

Assembled == fn_call.op = "create_document_from_file_info"

IdOf(file_info, repo_name, branch) ==
    create_document_from_file_info(file_info, repo_name, branch).doc_id

HasColon(s) == \E i \in 1..Len(s) : s[i] = ":"

\* C24 as stated: the document id is "{repo}:{branch}:{path}"; a call with
\* the same repo, branch and path gives the same id whatever the hash, size
\* and content, and a call that differs in repo, branch or path gives a
\* different id.
C24_IdIdentifiesRepoBranchPath ==
    Assembled =>
        /\ fn_call.document.doc_id =
               fn_call.repo_name \o <<":">> \o fn_call.branch \o <<":">> \o fn_call.file_info.path
        /\ \A f \in AssembleFiles, r \in AssembleRepos, b \in AssembleBranches :
               (IdOf(f, r, b) = fn_call.document.doc_id)
                   <=> /\ r = fn_call.repo_name
                       /\ b = fn_call.branch
                       /\ f.path = fn_call.file_info.path

\* C24, amended: as above, with different ids for calls that differ in repo,
\* branch or path when no repo and no branch of the two calls holds a ':'.
C24_IdIdentifiesColonFreeRepoBranch ==
    Assembled =>
        /\ fn_call.document.doc_id =
               fn_call.repo_name \o <<":">> \o fn_call.branch \o <<":">> \o fn_call.file_info.path
        /\ \A f \in AssembleFiles, r \in AssembleRepos, b \in AssembleBranches :
               /\ (r = fn_call.repo_name /\ b = fn_call.branch
                       /\ f.path = fn_call.file_info.path)
                      => IdOf(f, r, b) = fn_call.document.doc_id
               /\ (/\ IdOf(f, r, b) = fn_call.document.doc_id
                   /\ ~HasColon(r) /\ ~HasColon(b)
                   /\ ~HasColon(fn_call.repo_name) /\ ~HasColon(fn_call.branch))
                      => /\ r = fn_call.repo_name
                         /\ b = fn_call.branch
                         /\ f.path = fn_call.file_info.path

C24_Witness ==
    /\ Assembled
    /\ fn_call.repo_name = <<"o","/","r">>
    /\ fn_call.branch = <<"m">>
    /\ fn_call.file_info.path = <<"a",":","a">>
    /\ fn_call.file_info.sha = "sha2"
    /\ fn_call.document.doc_id = <<"o","/","r",":","m",":","a",":","a">>

\* The index of the last occurrence of ch in s, or 0.
LastIndexOf(s, ch) ==
    IF \E i \in 1..Len(s) : s[i] = ch
    THEN CHOOSE i \in 1..Len(s) : s[i] = ch /\ \A j \in (i + 1)..Len(s) : s[j] # ch
    ELSE 0

\* C25: the extension of the metadata is what follows the last '.' of the
\* file path, and empty when the path holds no '.'.
C25_ExtensionFollowsLastDot ==
    Assembled =>
        LET path == fn_call.file_info.path
        IN  fn_call.document.metadata.file_extension =
                IF LastIndexOf(path, ".") = 0 THEN <<>>
                ELSE SubSeq(path, LastIndexOf(path, ".") + 1, Len(path))

C25_Witness ==
    /\ Assembled
    /\ fn_call.file_info.path = <<"d","/","a",".","m">>
    /\ fn_call.document.metadata.file_extension = <<"m">>

\* C26: the directory of the metadata is the file path without its final
\* segment and the separator before it, and empty when the path holds no '/'.
C26_DirectoryDropsFinalSegment ==
    Assembled =>
        LET path == fn_call.file_info.path
        IN  fn_call.document.metadata.directory =
                IF LastIndexOf(path, "/") = 0 THEN <<>>
                ELSE SubSeq(path, 1, LastIndexOf(path, "/") - 1)

C26_Witness ==
    /\ Assembled
    /\ fn_call.file_info.path = <<"d","/","a",".","m">>
    /\ fn_call.document.metadata.directory = <<"d">>

\* C27: create_document_from_file_info returns a document whether or not
\* repo_name parses: when parse_github_url rejects repo_name the url of the
\* metadata is the url the file info carries, and when it accepts repo_name
\* the url is https://github.com/{owner}/{repo}/blob/{branch}/{path}.
C27_UrlFallsBackWhenRepoNameInvalid ==
    Assembled =>
        LET slash == LastIndexOf(fn_call.repo_name, "/")
            twoSegments ==
                /\ slash > 1
                /\ slash < Len(fn_call.repo_name)
                /\ Count(fn_call.repo_name, "/") = 1
        IN  /\ fn_call.document.doc_id # <<>>
            /\ fn_call.document.text = fn_call.file_info.content
            /\ ~twoSegments => fn_call.document.metadata.url = fn_call.file_info.url
            /\ twoSegments =>
                   fn_call.document.metadata.url =
                       HttpsPrefix \o GithubCom \o <<"/">> \o fn_call.repo_name
                           \o <<"/","b","l","o","b","/">> \o fn_call.branch
                           \o <<"/">> \o fn_call.file_info.path

C27_Witness ==
    /\ Assembled
    /\ fn_call.repo_name = <<"o">>
    /\ fn_call.document.metadata.url = <<"A","a","/","a">>
    /\ fn_call.document.metadata.raw_url = <<"R","a","/","a">>

\* ------------------------------------------------------------------ C28..C30: format_progress_display

Rendered == fn_call.op = "format_progress_display"

\* C28: the progress percent of a snapshot and of its rendering is within
\* 0..100 whatever value an update is given: a ProgressState built with a
\* value out of the range holds the nearest bound, and the rendering of a
\* snapshot prints a percent within the range over a bar of 40 cells.
C28_ProgressPercentWithinRange ==
    /\ fn_call.op = "ProgressState" =>
           /\ ~fn_call.result.raises
           /\ fn_call.result.progress =
                  IF fn_call.progress < 0 THEN 0
                  ELSE IF fn_call.progress > 100 THEN 100
                  ELSE fn_call.progress
    /\ (Rendered /\ ~fn_call.raises) =>
           /\ fn_call.output.percent \in 0..100
           /\ fn_call.output.bar.filled + fn_call.output.bar.empty = 40

\* C29: format_progress_display on a complete snapshot whose total_time is 0
\* does not raise and shows a processing rate of 0.
C29_CompleteWithZeroTimeRenders ==
    (/\ Rendered
     /\ Get(fn_call.progress_state, "status", "unknown") = "complete"
     /\ Get(fn_call.progress_state, "total_time", 0) = 0)
        => /\ ~fn_call.raises
           /\ fn_call.output.rate = 0

\* C30: format_progress_display on an error snapshot shows the first 300
\* characters of the error message, followed by '...' exactly when the
\* message is longer than 300 characters, and the four troubleshooting tips;
\* the snapshot holds the same message after the call.
C30_ErrorCappedWithEllipsis ==
    (Rendered /\ Get(fn_call.progress_state, "status", "unknown") = "error"
        /\ "error" \in DOMAIN fn_call.progress_state)
        => LET error == fn_call.progress_state.error
               shown == fn_call.output.error_details
           IN  /\ ~fn_call.raises
               /\ Len(error) <= ErrorCap => shown = error
               /\ Len(error) > ErrorCap =>
                      /\ Len(shown) = ErrorCap + 3
                      /\ \A i \in 1..ErrorCap : shown[i] = error[i]
                      /\ \A i \in (ErrorCap + 1)..(ErrorCap + 3) : shown[i] = "."
               /\ Len(fn_call.output.tips) = 4
               /\ fn_call.output.tips = TroubleshootingTips
               /\ fn_call.after = fn_call.progress_state

C30_Witness ==
    /\ Rendered
    /\ Get(fn_call.progress_state, "status", "unknown") = "error"
    /\ "error" \in DOMAIN fn_call.progress_state
    /\ Len(fn_call.progress_state.error) = ErrorCap + 1
    /\ Len(fn_call.output.error_details) = ErrorCap + 3
    /\ fn_call.output.error_details[ErrorCap + 1] = "."

\* ------------------------------------------------------------------ C31..C33, C37, C38: the tab

\* C31: no rendering of a snapshot raises, in a handler or in a refresh: no
\* exception has escaped, the run's snapshot renders, no error snapshot
\* stands for a snapshot that could not be rendered, and what is displayed
\* for a snapshot is its rendering (or the text of the reset).
C31_EverySnapshotRenders ==
    /\ uncaught = {}
    /\ ~format_progress_display(progress_state).raises
    /\ Get(progress_state, "error", None) \notin {"render", "division by zero"}
    /\ \/ progress_display = format_progress_display(progress_state).text
       \/ /\ progress_state = EmptyDict
          /\ progress_display = "ready_to_start_two_step_processing"

\* A complete snapshot of the shortest total time is displayed as its summary.
C31_Witness ==
    /\ StatusOf(progress_state) = "complete"
    /\ progress_state.total_time = 1
    /\ progress_state.vector_time = 0
    /\ progress_display = "complete_summary"
    /\ uncaught = {}

\* C32: a refresh of the empty snapshot displays the fixed ready message and
\* raises nothing, and a reset leaves the empty snapshot: a reset followed
\* by a refresh displays the ready message.
C32_EmptySnapshotRendersReady ==
    [][/\ (RefreshProgress /\ DOMAIN progress_state = {}) =>
              /\ progress_display' = "ready_to_start_ingestion"
              /\ uncaught' = uncaught
       /\ ResetProgress => DOMAIN progress_state' = {}
      ]_vars

\* The ready message is displayed for the empty snapshot of a tab whose
\* earlier run had stored documents: the run was reset, then refreshed.
C32_Witness ==
    /\ DOMAIN progress_state = {}
    /\ progress_display = "ready_to_start_ingestion"
    /\ mongodb.docs_collection # {}
    /\ uncaught = {}

NumericFields == {"total_files", "processed_files", "successful_files", "failed_files"}

\* C33: a step of a run that replaces the run's snapshot (a later yield of
\* stage 1, or the return of the stage 2 that was given the snapshot) keeps
\* every count the snapshot held: total_files, processed_files,
\* successful_files and failed_files are still in the new snapshot.
C33_CountsRetained ==
    [][(/\ progress_state' # progress_state
        /\ \/ s1pc \in {"loading", "fetching"} /\ s1pc' # s1pc
           \/ s2pc # "idle" /\ s2pc' = "idle" /\ progress_state = s2_current_progress)
           => \A k \in NumericFields :
                  k \in DOMAIN progress_state => k \in DOMAIN progress_state'
      ]_vars

\* C37: the step in which stage 2 returns a complete snapshot with
\* repository_updated true leaves the run's record in the repositories
\* collection: its update has succeeded.
C37_RepositoryUpdatedOnlyIfUpdated ==
    [][(/\ s2pc = "updating" /\ s2pc' = "idle"
        /\ StatusOf(progress_state') = "complete"
        /\ Get(progress_state', "repository_updated", FALSE))
           => /\ update_call[1].repo_name \in DOMAIN mongodb'.repos_collection
              /\ mongodb'.repos_collection[update_call[1].repo_name].file_count
                     = update_call[1].file_count
      ]_vars

\* C36: in every completed-load snapshot the repo_name that stage 2 will
\* pass to the store submission and to the repository record is the repo
\* in the metadata of every document the snapshot carries.
C36_RepoNameIsDocumentsRepo ==
    IsLoaded(progress_state) =>
        \A i \in 1..Len(progress_state.loaded_documents) :
            progress_state.loaded_documents[i].repo = progress_state.repo_name

\* C38: whenever the stage-2 button is interactive the run's snapshot is a
\* completed load, and the first yield of stage 1, a stage 1 that ends with
\* an error and a reset leave the button not interactive.
C38_EnabledStage2HasLoadedSnapshot ==
    [][/\ step2_btn' => IsLoaded(progress_state')
       /\ (\/ Stage1Start
           \/ ResetProgress
           \/ s1pc # "idle" /\ s1pc' = "idle" /\ StatusOf(progress_state') = "error")
              => ~step2_btn'
      ]_vars

\* ------------------------------------------------------------------ C39: ids and the identifier's form

\* The ids of the documents load_files_from_github returns, in order.
DocIds(documents) == [i \in 1..Len(documents) |-> documents[i].doc_id]

\* The ids the returned call would have produced, from the same retrievals,
\* had it been given the identifier u.
IdsUnder(u) ==
    DocIds(Assemble(ClientFileInfos(ld.file_paths, cl_status, cl_done),
                    ClientFailedPaths(ld.file_paths, cl_status, cl_done),
                    LoadEnter(ld.caller, u, ld.file_paths, ld.max_concurrent).repo_name)
               .documents)

\* C39: the documents of a returned call have the id "owner/name:main:path"
\* built from the parsed owner and name, and the call given any other
\* identifier that parses to the same owner and name produces the same ids.
C39_IdsIndependentOfForm ==
    (ld.pc = "returned" /\ ld.file_paths # <<>> /\ ~ParseRaises(ld.repo_url)) =>
        /\ \A i \in 1..Len(ld.documents) :
               ld.documents[i].doc_id =
                   parse_github_url(ld.repo_url).owner \o <<"/">>
                       \o parse_github_url(ld.repo_url).repo
                       \o <<":">> \o Main \o <<":">> \o ld.documents[i].file_path
        /\ \A u \in RepoUrls :
               (/\ ~ParseRaises(u)
                /\ parse_github_url(u) = parse_github_url(ld.repo_url))
                   => IdsUnder(u) = DocIds(ld.documents)

\* A call given the full URL has returned a document whose id starts with
\* the shorthand of the same repository.
C39_Witness ==
    /\ ld.pc = "returned"
    /\ ld.repo_url = UrlFull
    /\ Len(ld.documents) > 0
    /\ StartsWith(ld.documents[1].doc_id, UrlShort \o <<":">> \o Main \o <<":">>)
    /\ parse_github_url(UrlShort) = parse_github_url(UrlFull)

\* ------------------------------------------------------------------ C34: discovery

Discovered == fn_call.op = "_discover_files"

\* C34: discover_repository_files raises nothing; when the listing fails it
\* returns an empty list and a message holding the text of the failure; and
\* the handler then keeps files_state empty, shows the message and leaves
\* step1_btn not interactive.
C34_DiscoveryFailureIsEmptyListAndMessage ==
    Discovered =>
        /\ ~fn_call.found.raises
        /\ fn_call.tree.raises =>
               /\ fn_call.found.files = <<>>
               /\ fn_call.found.message = "Error: " \o fn_call.tree.message
               /\ fn_call.outputs.files_state = <<>>
               /\ ~fn_call.outputs.step1_btn
               /\ ~fn_call.outputs.selector_visible
               /\ fn_call.outputs.status_output
                      \in {fn_call.found.message, "Please enter a repository URL"}

\* The listing failed for a well-formed identifier and the handler shows
\* the error with the stage-1 button not interactive.
C34_Witness ==
    /\ Discovered
    /\ fn_call.repo_url = UrlShort
    /\ fn_call.tree.raises
    /\ fn_call.outputs.status_output = "Error: rate limit exceeded"
    /\ ~fn_call.outputs.step1_btn

\* ------------------------------------------------------------------ C40: the reports of ingest_documents

\* The reports among the events of the call, in order.
Reports == SelectSeq(fn_call.events, LAMBDA e : e.kind = "report")

\* The position of the first event of a kind, 0 when there is none.
EventAt(kind) ==
    IF \E i \in 1..Len(fn_call.events) : fn_call.events[i].kind = kind
    THEN CHOOSE i \in 1..Len(fn_call.events) :
             /\ fn_call.events[i].kind = kind
             /\ \A j \in 1..(i - 1) : fn_call.events[j].kind # kind
    ELSE 0

\* The position of the report of a phase among the events, 0 when there is none.
ReportAt(phase) ==
    IF \E i \in 1..Len(fn_call.events) : fn_call.events[i].phase = phase
    THEN CHOOSE i \in 1..Len(fn_call.events) : fn_call.events[i].phase = phase
    ELSE 0

\* C40: a call with at least one document and an observer reports
\* 'Initializing vector store', then 'Processing documents', then one
\* terminal report, which is the last: 'Ingestion complete' with processed =
\* total, after the store call and before the metadata update, or 'Error'
\* with processed = 0, after which IngestionError is raised; no report has
\* processed above total.
C40_ReportsInOrderOneTerminal ==
    (fn_call.op = "ingest_documents" /\ fn_call.total > 0 /\ fn_call.callback.set) =>
        /\ Len(Reports) = 3
        /\ Reports[1].phase = "Initializing vector store"
        /\ Reports[2].phase = "Processing documents"
        /\ Reports[3].phase \in {"Ingestion complete", "Error"}
        /\ Reports[3].phase = "Ingestion complete" =>
               /\ Reports[3].processed = Reports[3].total
               /\ EventAt("from_documents") > 0
               /\ EventAt("from_documents") < ReportAt("Ingestion complete")
               /\ ReportAt("Ingestion complete") < EventAt("update_repository_info")
        /\ Reports[3].phase = "Error" =>
               /\ Reports[3].processed = 0
               /\ fn_call.outcome = "raise IngestionError"
        /\ \A i \in 1..Len(Reports) : Reports[i].processed <= Reports[i].total

\* ------------------------------------------------------------------ C35: one submission per snapshot

\* C35: two invocations of stage 2 never both hold a pending
\* ingest_documents_async call made from the same completed-load snapshot.
C35_OneSubmissionPerLoadedSnapshot ==
    ~(/\ store_call # <<>>
      /\ s2_second.store_call # <<>>
      /\ IsLoaded(s2_current_progress)
      /\ s2_second.current_progress = s2_current_progress)

====
